---- MODULE Spec2Model ----
(***************************************************************************)
(* Model of the kronos backtesting engine: the simulated broker            *)
(* (src/src/broker/execution.rs), positions (src/src/broker/position.rs),  *)
(* orders (src/src/broker/order.rs), the run loop (src/src/engine.rs) and  *)
(* the broker configuration done by the request handler                    *)
(* (src/src/routes/run.rs), the trade tracker                              *)
(* (src/src/analytics/tracker.rs) and its trades                           *)
(* (src/src/analytics/trade.rs).                                           *)
(*                                                                         *)
(* The request handler calls an engine whose run() returns a Result and    *)
(* which owns a TradeTracker; that engine is not among the sources, which  *)
(* hold the earlier BacktestEngine.  The run loop is modelled from the     *)
(* BacktestEngine, and what the later engine adds to it (the events it     *)
(* hands to the tracker, the equity snapshot, the value it returns) is     *)
(* modelled from sections 4.1, 4.5 and 5 of the specification.             *)
(*                                                                         *)
(* Reals (f64) are modelled in exact fixed-point arithmetic: money and     *)
(* prices are integers, fractions (slippage draws, Percentage fees) are    *)
(* counted in units of 1/One, and the inputs are chosen so that every      *)
(* product is exact.  A weighted average price is kept as a reduced        *)
(* fraction <<numerator, denominator>>.                                    *)
(***************************************************************************)
EXTENDS Integers, Sequences, FiniteSets, TLC

\* ---------------------------------------------------------------- bounds
\* Largest number of orders the strategy places in one run.
MaxOrders == 3
\* Length of the pre-generated slippage pool (10000 in the source).
PoolSize == 2
\* Largest number of events handed to a tracker that is driven directly.
MaxEvents == 4
\* Number of equity points the model keeps: one for every tick of a run
\* whose time advances; a run whose time stands still records points
\* without end, and the model keeps the first MaxCurve of them.
MaxCurve == 3
\* Largest tick interval, in time units, the request carries.
MaxTick == 2
\* A run with a negative tick goes backwards in time without end; the model
\* follows it down to MaxBack time units before the start time.
MaxBack == 2

\* The literal 1.0 of `market_price * (1.0 + slippage_percentage)` in the
\* fixed-point scale of fractions: a fraction f is stored as f * One.
One == 10

\* ---------------------------------------------------------------- inputs
Assets == {"A", "B"}
Directions == {"Buy", "Sell"}
Sizes == {1, 2}
\* (min, max) of set_slippage in units of 1/One: slippage in [0.0, 0.1].
SlippageRanges == {<<0, 1>>}
\* Starting cash of the request.
CashChoices == {250}
\* Trigger prices of the limit orders the strategy may place.
LimitPrices == {150}
\* Expiries carried by the orders that have one.
Expiries == {2}

\* Option<T> is modelled as a set with at most one element.
None == {}
Some(x) == {x}

\* OHLCVData (src/src/data.rs): the fields the broker and the engine read.
Sample(ts, open, close) == [timestamp |-> ts, open |-> open, close |-> close]

\* The feeds of the runs, sorted by timestamp: one with a sample at every
\* time unit, one with a gap that reaches past the end of the time range,
\* and the empty feed.
Feeds ==
    { << Sample(1, 100, 110), Sample(2, 200, 190), Sample(3, 100, 100) >>,
      << Sample(1, 200, 210), Sample(4, 100, 100) >>,
      << >> }

\* (from_time, to_time) of the request.
TimeRanges == {<<1, 3>>}

\* OrderType (src/src/broker/order.rs).
Market == [kind |-> "Market", price |-> 0]
Limit(p) == [kind |-> "Limit", price |-> p]
Stop(p) == [kind |-> "Stop", price |-> p]

\* FeeType (src/src/broker/fee.rs), and Option<FeeType> of the broker.
Flat(fee) == [kind |-> "Flat", value |-> fee]
Percentage(p) == [kind |-> "Percentage", value |-> p]
NoFee == [kind |-> "None", value |-> 0]
FeeChoices == {NoFee, Flat(150), Percentage(1)}

\* Order (src/src/broker/order.rs) as the strategy builds it: market orders
\* of size 1 on every asset and a limit buy that carries an expiry.  Orders
\* of size 2 and orders with other triggers are placed in the runs further
\* down that are about them.
OrderChoices ==
    [asset : Assets, direction : Directions, size : {1},
     order_type : {Market}, valid_until : {None}]
    \cup
    [asset : {"A"}, direction : {"Buy"}, size : {1},
     order_type : {Limit(p) : p \in LimitPrices},
     valid_until : {Some(t) : t \in Expiries}]

VARIABLES
    \* Broker (src/src/broker/execution.rs)
    cash, fee_type, slippage_range, portfolio, orders,
    slippage_values, slippage_index, analytics,
    \* BacktestEngine (src/src/engine.rs): its fields, the locals of run()
    \* and the position of run() in its loop
    data_feed, time_range, tick, current_time, data_index, closest_data, pc, i,
    \* observation of the run: the orders examined by the current
    \* handle_unfulfilled_orders call with their outcome, the executions so
    \* far, the ids of the orders placed in the current loop iteration
    examined, fills, placed_now,
    \* TradeTracker (src/src/analytics/tracker.rs) of the engine, and the
    \* value run() has returned to the request handler (None while it runs)
    tracker, result,
    \* the buy and sell events handed to the tracker so far
    events,
    \* replay of a request: the number of the run (0 when the request is run
    \* once), the outcome of the first run, the orders of each strategy call
    \* of the first run that the second run has still to make
    run_no, first_run, script,
    \* WasmStrategy (src/src/strategy/wasm.rs): the broker of HostState (an
    \* Option), the state of the guest call in progress, whether the guest
    \* has called abort in it
    host_broker, guest, aborted,
    \* observation of the guest: the engine's broker as it was lent to the
    \* current tick call (an Option), the host calls made so far
    lent, host_calls,
    \* the request handler (src/src/routes/run.rs): the request, the
    \* position of the handler in it, what it has done, the response
    handler,
    \* GlobalMetrics (src/src/analytics/metrics.rs) once computed (an Option)
    metrics

brokerVars ==
    <<cash, fee_type, slippage_range, portfolio, orders,
      slippage_values, slippage_index, analytics>>
configVars == <<data_feed, time_range, tick>>
replayVars == <<run_no, first_run, script>>
guestVars == <<host_broker, guest, aborted, lent, host_calls>>
vars ==
    <<brokerVars, configVars, current_time, data_index, closest_data, pc, i,
      examined, fills, placed_now, tracker, result, events, replayVars,
      guestVars, handler, metrics>>

\* ------------------------------------------------------------ arithmetic
Abs(x) == IF x < 0 THEN -x ELSE x

RECURSIVE GCD(_, _)
GCD(a, b) == IF b = 0 THEN Abs(a) ELSE GCD(Abs(b), Abs(a) % Abs(b))

\* The f64 n/d as a reduced fraction with positive denominator; a division
\* by zero gives <<1, 0>> (inf), <<-1, 0>> (-inf) or <<0, 0>> (NaN).
Rat(n, d) ==
    LET g == GCD(n, d)
        s == IF d < 0 THEN -1 ELSE 1
    IN  IF d = 0
        THEN <<IF n > 0 THEN 1 ELSE IF n < 0 THEN -1 ELSE 0, 0>>
        ELSE <<(s * n) \div g, (s * d) \div g>>

\* ------------------------------------------------------------- position
\* Position::new
PositionNew(quantity, price) ==
    [quantity |-> quantity, average_price |-> <<price, 1>>]

\* The average price becomes the price of the last buy.
PositionUpdateLastPrice(position, quantity, price) ==
    [quantity |-> position.quantity + quantity, average_price |-> <<price, 1>>]

\* Position::update: total_cost = average_price * quantity + price * q;
\* quantity += q; average_price = total_cost / quantity.
PositionUpdate(position, quantity, price) ==
    LET n == position.average_price[1]
        d == position.average_price[2]
        new_quantity == position.quantity + quantity
    IN  [quantity |-> new_quantity,
         average_price |->
            Rat(n * position.quantity + price * quantity * d, d * new_quantity)]

\* The whole position is taken whatever the quantity sold.
PositionRemoveAll(position, quantity) ==
    IF quantity > position.quantity
    THEN [ok |-> FALSE, position |-> position]
    ELSE [ok |-> TRUE, position |-> [position EXCEPT !.quantity = 0]]

\* Position::remove: Err when quantity > self.quantity, else subtract.
PositionRemove(position, quantity) ==
    IF quantity > position.quantity
    THEN [ok |-> FALSE, position |-> position]
    ELSE [ok |-> TRUE,
          position |-> [position EXCEPT !.quantity = @ - quantity]]

\* --------------------------------------------------------------- broker
\* The fee with the Percentage value charged as an amount.
CalculateFeesAsAmount(ft, amount) ==
    IF ft.kind = "None" THEN 0 ELSE ft.value

\* Broker::calculate_fees; a Percentage fraction is counted in 1/One.
CalculateFees(ft, amount) ==
    CASE ft.kind = "Flat" -> ft.value
      [] ft.kind = "Percentage" -> (amount * ft.value) \div One
      [] OTHER -> 0

\* Broker::apply_slippage: the execution price and the cursor after the call.
ApplySlippage(values, index, market_price) ==
    IF values = <<>>
    THEN [price |-> market_price, index |-> index]
    ELSE LET slippage_percentage == values[(index % Len(values)) + 1]
         IN  [price |-> (market_price * (One + slippage_percentage)) \div One,
              index |-> index + 1]

\* The position is left in the portfolio.
KeepKey(f, k) == f

\* HashMap::remove on the portfolio.
RemoveKey(f, k) == [x \in (DOMAIN f) \ {k} |-> f[x]]

\* Broker::execute_order on the current broker state: the outcome and the
\* fields of the broker after the call.
ExecuteOrder(order, market_price) ==
    LET slip == ApplySlippage(slippage_values, slippage_index, market_price)
        execution_price == slip.price
        slippage_diff == execution_price - market_price
        total_slippage == analytics.total_slippage + slippage_diff * order.size
        amount == order.size * execution_price
        fees == CalculateFees(fee_type, amount)
        base == [ok |-> FALSE, cash |-> cash, portfolio |-> portfolio,
                 total_fees |-> analytics.total_fees,
                 total_slippage |-> total_slippage,
                 slippage_index |-> slip.index,
                 execution_price |-> execution_price, fees |-> fees]
    IN  IF order.direction = "Buy"
        THEN LET total_spent == amount + fees
                 position == IF order.asset \in DOMAIN portfolio
                             THEN portfolio[order.asset]
                             ELSE PositionNew(0, execution_price)
             IN  IF cash >= total_spent
                 THEN [base EXCEPT
                         !.ok = TRUE,
                         !.cash = cash - total_spent,
                         !.total_fees = @ + fees,
                         !.portfolio =
                            (order.asset :> PositionUpdate(position, order.size,
                                                           execution_price))
                            @@ portfolio]
                 ELSE base
        ELSE LET total_value == amount - fees
             IN  IF order.asset \notin DOMAIN portfolio
                 THEN base
                 ELSE IF portfolio[order.asset].quantity < order.size
                 THEN base
                 ELSE LET removed == PositionRemove(portfolio[order.asset],
                                                    order.size)
                      IN  IF ~removed.ok
                          THEN base
                          ELSE [base EXCEPT
                                  !.ok = TRUE,
                                  !.cash = cash + total_value,
                                  !.total_fees = @ + fees,
                                  !.portfolio =
                                     IF removed.position.quantity = 0
                                     THEN RemoveKey(portfolio, order.asset)
                                     ELSE [portfolio EXCEPT
                                             ![order.asset] = removed.position]]

\* The removal takes the orders behind the removed one with it.
TruncateAt(s, k) == SubSeq(s, 1, k)

\* Vec::swap_remove(i), i counted from 0: the last element takes the place
\* of the removed one.
SwapRemove(s, k) ==
    LET n == Len(s)
    IN  IF k + 1 = n
        THEN SubSeq(s, 1, n - 1)
        ELSE [SubSeq(s, 1, n - 1) EXCEPT ![k + 1] = s[n]]

\* The expiry test with the comparison turned round.
ExpiredReversed(order, time) ==
    \E valid_until \in order.valid_until : time < valid_until

\* The expiry test that also drops an order at its valid_until.
ExpiredInclusive(order, time) ==
    \E valid_until \in order.valid_until : time >= valid_until

\* The expiry test of handle_unfulfilled_orders: current_time > valid_until.
Expired(order, time) == \E valid_until \in order.valid_until : time > valid_until

\* The trigger test with strict comparisons.
TriggeredStrict(order, open) ==
    CASE order.order_type.kind = "Market" -> TRUE
      [] order.order_type.kind = "Limit" ->
            \/ (order.direction = "Buy" /\ open < order.order_type.price)
            \/ (order.direction = "Sell" /\ open > order.order_type.price)
      [] order.order_type.kind = "Stop" ->
            \/ (order.direction = "Buy" /\ open > order.order_type.price)
            \/ (order.direction = "Sell" /\ open < order.order_type.price)

\* The trigger test of handle_unfulfilled_orders against the open price.
Triggered(order, open) ==
    CASE order.order_type.kind = "Market" -> TRUE
      [] order.order_type.kind = "Limit" ->
            \/ (order.direction = "Buy" /\ open <= order.order_type.price)
            \/ (order.direction = "Sell" /\ open >= order.order_type.price)
      [] order.order_type.kind = "Stop" ->
            \/ (order.direction = "Buy" /\ open >= order.order_type.price)
            \/ (order.direction = "Sell" /\ open <= order.order_type.price)

\* Broker::portfolio_value: the positions at the close price of the sample.
RECURSIVE PortfolioValueOf(_, _, _)
PortfolioValueOf(pf, assets, data) ==
    IF assets = {}
    THEN 0
    ELSE LET a == CHOOSE x \in assets : TRUE
         IN  pf[a].quantity * data.close
             + PortfolioValueOf(pf, assets \ {a}, data)

PortfolioValue(data) == PortfolioValueOf(portfolio, DOMAIN portfolio, data)

\* ---------------------------------------------------------------- trade
\* Trade::new: an open lot.
TradeNew(id, asset, entry_time, entry_price, quantity, entry_fees, entry_slippage) ==
    [id |-> id, asset |-> asset, entry_time |-> entry_time,
     entry_price |-> entry_price, quantity |-> quantity,
     entry_fees |-> entry_fees, entry_slippage |-> entry_slippage,
     exit_time |-> None, exit_price |-> None, exit_fees |-> 0,
     exit_slippage |-> 0, profit_loss |-> None, return_pct |-> None]

\* The profit of a trade with the entry fees left out of the entry cost.
ProfitWithoutEntryFees(trade, exit_price, exit_fees) ==
    (exit_price * trade.quantity - exit_fees)
    - trade.entry_price * trade.quantity

\* The profit of Trade::close for a Long trade: exit_value - entry_cost.
Profit(trade, exit_price, exit_fees) ==
    LET entry_cost == trade.entry_price * trade.quantity + trade.entry_fees
        exit_value == exit_price * trade.quantity - exit_fees
    IN  exit_value - entry_cost

\* The trade closed with the profit of a sell without fee.
TradeCloseGross(trade, exit_time, exit_price, exit_fees, exit_slippage) ==
    LET entry_cost == trade.entry_price * trade.quantity + trade.entry_fees
        pl == Profit(trade, exit_price, 0)
    IN  [trade EXCEPT !.exit_time = Some(exit_time),
                      !.exit_price = Some(exit_price),
                      !.exit_fees = exit_fees,
                      !.exit_slippage = exit_slippage,
                      !.profit_loss = Some(pl),
                      !.return_pct = Some(Rat(pl * 100, entry_cost))]

\* Trade::close; return_pct = (pl / entry_cost) * 100 is kept as a reduced
\* fraction.
TradeClose(trade, exit_time, exit_price, exit_fees, exit_slippage) ==
    LET entry_cost == trade.entry_price * trade.quantity + trade.entry_fees
        pl == Profit(trade, exit_price, exit_fees)
    IN  [trade EXCEPT !.exit_time = Some(exit_time),
                      !.exit_price = Some(exit_price),
                      !.exit_fees = exit_fees,
                      !.exit_slippage = exit_slippage,
                      !.profit_loss = Some(pl),
                      !.return_pct = Some(Rat(pl * 100, entry_cost))]

\* -------------------------------------------------------------- tracker
\* TradeTracker::new.
NewTracker ==
    [open_trades |-> <<>>, closed_trades |-> <<>>, next_trade_id |-> 1,
     equity_curve |-> <<>>, initial_capital |-> 0, total_fees |-> 0,
     total_slippage |-> 0]

\* TradeTracker::set_initial_capital.
SetInitialCapital(tr, capital) == [tr EXCEPT !.initial_capital = capital]

\* The lot is dropped when the symbol already has open lots.
RecordBuyFirstOnly(tr, asset, time, price, quantity, fees, slippage) ==
    LET trade == TradeNew(tr.next_trade_id, asset, time, price, quantity,
                          fees, slippage)
    IN  [tr EXCEPT !.total_fees = @ + fees,
                   !.total_slippage = @ + slippage * quantity,
                   !.next_trade_id = @ + 1,
                   !.open_trades =
                      IF asset \in DOMAIN @ THEN @ ELSE (asset :> <<trade>>) @@ @]

\* TradeTracker::record_buy: a new lot at the tail of the symbol's queue.
RecordBuy(tr, asset, time, price, quantity, fees, slippage) ==
    LET trade == TradeNew(tr.next_trade_id, asset, time, price, quantity,
                          fees, slippage)
        queue == IF asset \in DOMAIN tr.open_trades
                 THEN tr.open_trades[asset] ELSE <<>>
    IN  [tr EXCEPT !.total_fees = @ + fees,
                   !.total_slippage = @ + slippage * quantity,
                   !.next_trade_id = @ + 1,
                   !.open_trades = (asset :> Append(queue, trade)) @@ @]

\* The whole lot is closed whatever is left of the sell.
QuantityToCloseLot(remaining_quantity, lot_quantity) == lot_quantity

\* quantity_to_close = remaining_quantity.min(trade.quantity).
QuantityToClose(remaining_quantity, lot_quantity) ==
    IF remaining_quantity < lot_quantity
    THEN remaining_quantity ELSE lot_quantity

\* The whole fee goes to every trade.
ShareWhole(x, part, whole) == x

\* x * (part / whole), the proportional share of a fee or a slippage.
Share(x, part, whole) == (x * part) \div whole

\* The for loop of TradeTracker::record_sell over the symbol's lots, oldest
\* first, idx counted from 1: the lots after the loop, the trades it pushed
\* to closed_trades, and trades_to_close.
RECURSIVE SellLoop(_, _, _, _, _, _)
SellLoop(lots, idx, remaining_quantity, closed, trades_to_close, sell) ==
    IF idx > Len(lots) \/ remaining_quantity <= 0
    THEN [lots |-> lots, closed |-> closed, trades_to_close |-> trades_to_close]
    ELSE LET trade == lots[idx]
             quantity_to_close ==
                 QuantityToClose(remaining_quantity, trade.quantity)
             exit_fees == Share(sell.fees, quantity_to_close, sell.quantity)
             exit_slippage ==
                 Share(sell.slippage, quantity_to_close, sell.quantity)
         IN  IF quantity_to_close >= trade.quantity
             THEN SellLoop(
                    [lots EXCEPT ![idx] =
                        TradeClose(trade, sell.time, sell.price, exit_fees,
                                   exit_slippage)],
                    idx + 1, remaining_quantity - quantity_to_close, closed,
                    Append(trades_to_close, idx), sell)
             ELSE LET closed_entry_fees ==
                          Share(trade.entry_fees, quantity_to_close,
                                trade.quantity)
                      closed_trade ==
                          TradeClose(
                            [trade EXCEPT !.quantity = quantity_to_close,
                                          !.entry_fees = closed_entry_fees],
                            sell.time, sell.price, exit_fees, exit_slippage)
                  IN  SellLoop(
                        [lots EXCEPT ![idx] =
                            [trade EXCEPT
                               !.quantity = @ - quantity_to_close,
                               !.entry_fees = @ - closed_entry_fees]],
                        idx + 1, remaining_quantity - quantity_to_close,
                        Append(closed, closed_trade), trades_to_close, sell)

\* Vec::swap_remove(idx) on the lots, idx counted from 1.
SwapRemoveAt(s, idx) ==
    IF idx = Len(s)
    THEN SubSeq(s, 1, Len(s) - 1)
    ELSE [SubSeq(s, 1, Len(s) - 1) EXCEPT ![idx] = s[Len(s)]]

\* Vec::remove(idx) on the lots, idx counted from 1.
RemoveAt(s, idx) == SubSeq(s, 1, idx - 1) \o SubSeq(s, idx + 1, Len(s))

\* The second loop of record_sell: the lots of trades_to_close leave the
\* queue, last index first, and are pushed to closed_trades.
RECURSIVE CloseLoop(_, _, _)
CloseLoop(lots, closed, trades_to_close) ==
    IF trades_to_close = <<>>
    THEN [lots |-> lots, closed |-> closed]
    ELSE LET idx == trades_to_close[Len(trades_to_close)]
         IN  CloseLoop(RemoveAt(lots, idx), Append(closed, lots[idx]),
                       SubSeq(trades_to_close, 1, Len(trades_to_close) - 1))

\* The sell is counted in the totals and closes no lot.
RecordSellCountedOnly(tr, asset, time, price, quantity, fees, slippage) ==
    [tr EXCEPT !.total_fees = @ + fees,
               !.total_slippage = @ + slippage * quantity]

\* TradeTracker::record_sell.
RecordSell(tr, asset, time, price, quantity, fees, slippage) ==
    LET counted == [tr EXCEPT !.total_fees = @ + fees,
                              !.total_slippage = @ + slippage * quantity]
        sell == [time |-> time, price |-> price, quantity |-> quantity,
                 fees |-> fees, slippage |-> slippage]
    IN  IF asset \notin DOMAIN tr.open_trades
        THEN counted
        ELSE LET looped == SellLoop(tr.open_trades[asset], 1, quantity,
                                    tr.closed_trades, <<>>, sell)
                 done == CloseLoop(looped.lots, looped.closed,
                                   looped.trades_to_close)
             IN  [counted EXCEPT
                    !.closed_trades = done.closed,
                    !.open_trades =
                       IF done.lots = <<>>
                       THEN [x \in (DOMAIN @) \ {asset} |-> @[x]]
                       ELSE [@ EXCEPT ![asset] = done.lots]]

\* TradeTracker::record_equity_snapshot: the point is pushed (and kept by
\* the model while the curve has fewer than MaxCurve points).
RecordEquitySnapshot(tr, time, total_value) ==
    [tr EXCEPT !.equity_curve =
        IF Len(@) < MaxCurve THEN Append(@, <<time, total_value>>) ELSE @]

\* A buy or sell event of the tracker.
Event(side, asset, time, price, quantity, fees, slippage) ==
    [side |-> side, asset |-> asset, time |-> time, price |-> price,
     quantity |-> quantity, fees |-> fees, slippage |-> slippage]

\* The tracker's record_buy or record_sell on an event.
Track(tr, e) ==
    IF e.side = "Buy"
    THEN RecordBuy(tr, e.asset, e.time, e.price, e.quantity, e.fees,
                   e.slippage)
    ELSE RecordSell(tr, e.asset, e.time, e.price, e.quantity, e.fees,
                    e.slippage)

\* The event of a successful execution, handed to the tracker (section
\* 4.1): side, symbol, time, execution price, size, fees and the slippage
\* per unit, execution price - market price.
FillEvent(order, time, market_price, r) ==
    Event(order.direction, order.asset, time, r.execution_price, order.size,
          r.fees, r.execution_price - market_price)

\* The equity point of a tick (section 4.5, step 2): cash plus the value of
\* the portfolio at the sample.
TrackEquity(tr, time, data) ==
    RecordEquitySnapshot(tr, time, cash + PortfolioValue(data))

\* The values run() returns to the request handler (sections 4.5 and 5).
DataFeedEmpty == "DataFeedEmpty"
BacktestResult == "BacktestResult"

\* -------------------------------------------------------------- metrics
\* GlobalMetrics (src/src/analytics/metrics.rs).  Ratios are reduced
\* fractions <<numerator, denominator>>.
Zero == <<0, 1>>
RatOf(n) == <<n, 1>>
RatAdd(x, y) == Rat(x[1] * y[2] + y[1] * x[2], x[2] * y[2])
RatSub(x, y) == Rat(x[1] * y[2] - y[1] * x[2], x[2] * y[2])
RatLess(x, y) == x[1] * y[2] < y[1] * x[2]

\* t.profit_loss.unwrap_or(0.0)
ProfitOrZero(t) == IF t.profit_loss = None THEN 0 ELSE CHOOSE x \in t.profit_loss : TRUE

\* The trades a filter of calculate keeps.
WinningTrades(trades) == SelectSeq(trades, LAMBDA t : ProfitOrZero(t) > 0)
LosingTrades(trades) == SelectSeq(trades, LAMBDA t : ProfitOrZero(t) < 0)

\* win_rate = winning_trades.len() / total_trades * 100, metrics.rs:76-80.
WinRate(trades) ==
    IF Len(trades) > 0
    THEN Rat(Len(WinningTrades(trades)) * 100, Len(trades))
    ELSE Zero

\* The per-step returns of the equity curve, metrics.rs:192-199.
Returns(equity_curve) ==
    [k \in 1..(Len(equity_curve) - 1) |->
        Rat(equity_curve[k + 1][2] - equity_curve[k][2], equity_curve[k][2])]

RECURSIVE RatSum(_)
RatSum(rs) == IF rs = <<>> THEN Zero ELSE RatAdd(Head(rs), RatSum(Tail(rs)))

\* calculate_sharpe_ratio, metrics.rs:187-221: 0 for a curve of fewer than
\* two points and for returns without spread (std_dev == 0.0, which is the
\* case when all returns are equal); otherwise
\* (mean_return - risk_free_rate / 252) / std_dev * sqrt(252), kept as its
\* numerator mean_return - risk_free_rate / 252 and the returns whose
\* standard deviation divides it.
CalculateSharpeRatio(equity_curve, risk_free_rate) ==
    IF Len(equity_curve) < 2 THEN Zero
    ELSE LET returns == Returns(equity_curve)
             mean_return ==
                 Rat(RatSum(returns)[1], RatSum(returns)[2] * Len(returns))
             daily_risk_free == Rat(risk_free_rate[1], risk_free_rate[2] * 252)
         IN  IF \A k \in 1..Len(returns) : returns[k] = returns[1]
             THEN Zero
             ELSE [mean_excess |-> RatSub(mean_return, daily_risk_free),
                   returns |-> returns]

\* The for loop of calculate_max_drawdown over the points from the k-th,
\* metrics.rs:233-254: the max_drawdown it ends with.
RECURSIVE DrawdownLoop(_, _, _, _)
DrawdownLoop(equity_curve, k, max_value, max_drawdown) ==
    IF k > Len(equity_curve) THEN max_drawdown
    ELSE LET value == equity_curve[k][2]
         IN  IF value > max_value
             THEN DrawdownLoop(equity_curve, k + 1, value, max_drawdown)
             ELSE LET drawdown == Rat((value - max_value) * 100, max_value)
                  IN  DrawdownLoop(equity_curve, k + 1, max_value,
                                   IF RatLess(drawdown, max_drawdown)
                                   THEN drawdown ELSE max_drawdown)

\* The change from the first point of the curve to the last, in percent.
ChangeFirstToLast(equity_curve) ==
    IF equity_curve = <<>> THEN Zero
    ELSE Rat((equity_curve[Len(equity_curve)][2] - equity_curve[1][2]) * 100,
             equity_curve[1][2])

\* calculate_max_drawdown, metrics.rs:223-257: the drawdown in percent.
CalculateMaxDrawdown(equity_curve) ==
    IF equity_curve = <<>> THEN Zero
    ELSE DrawdownLoop(equity_curve, 1, equity_curve[1][2], Zero)

\* The for loop of calculate_max_drawdown for the duration: the longest
\* time from drawdown_start to a sample at or below max_value; drawdown_start
\* (an Option) is cleared by a new maximum and set by the first sample after
\* it that is not one.
RECURSIVE DurationLoop(_, _, _, _, _)
DurationLoop(equity_curve, k, max_value, drawdown_start, max_duration) ==
    IF k > Len(equity_curve) THEN max_duration
    ELSE LET time == equity_curve[k][1]
             value == equity_curve[k][2]
         IN  IF value > max_value
             THEN DurationLoop(equity_curve, k + 1, value, None, max_duration)
             ELSE LET start == IF drawdown_start = None THEN time
                               ELSE CHOOSE t \in drawdown_start : TRUE
                      duration == time - start
                  IN  DurationLoop(equity_curve, k + 1, max_value, Some(start),
                                   IF duration > max_duration
                                   THEN duration ELSE max_duration)

\* calculate_max_drawdown, metrics.rs:223-257: max_drawdown_duration.num_days().
\* The times of an equity curve are counted in days.
MaxDrawdownDuration(equity_curve) ==
    IF equity_curve = <<>> THEN 0
    ELSE DurationLoop(equity_curve, 1, equity_curve[1][2], None, 0)

\* GlobalMetrics::default, the fields the model follows.
DefaultMetrics ==
    [total_trades |-> 0, winning_trades |-> 0, losing_trades |-> 0,
     win_rate |-> Zero, sharpe_ratio |-> Zero, max_drawdown |-> Zero,
     max_drawdown_duration_days |-> 0]

\* GlobalMetrics::calculate, metrics.rs:38-185, the fields the model follows.
CalculateMetrics(trades, equity_curve, risk_free_rate) ==
    IF trades = <<>> THEN DefaultMetrics
    ELSE [total_trades |-> Len(trades),
          winning_trades |-> Len(WinningTrades(trades)),
          losing_trades |-> Len(LosingTrades(trades)),
          win_rate |-> WinRate(trades),
          sharpe_ratio |-> CalculateSharpeRatio(equity_curve, risk_free_rate),
          max_drawdown |-> CalculateMaxDrawdown(equity_curve),
          max_drawdown_duration_days |-> MaxDrawdownDuration(equity_curve)]

\* The risk-free rate the engine computes the metrics with.
RiskFreeRate == Zero

\* The metrics of the BacktestResult (section 4.5): computed after the loop
\* from the closed trades and the equity curve of the tracker.
ResultMetrics ==
    CalculateMetrics(tracker.closed_trades, tracker.equity_curve, RiskFreeRate)

\* --------------------------------------------------------------- engine
\* The inner while loop of BacktestEngine::run: starting at data_index, walk
\* the feed up to and including the first sample later than current_time and
\* keep the sample nearest in time (closest is an Option of a 1-based index,
\* diff the distance of the nearest sample so far).
RECURSIVE Scan(_, _, _, _, _)
Scan(feed, index, time, closest, diff) ==
    IF index >= Len(feed)
    THEN [data_index |-> index, closest_data |-> closest]
    ELSE LET ohlcv == feed[index + 1]
             time_diff == Abs(ohlcv.timestamp - time)
             nearer == closest = None \/ time_diff < diff
             closest2 == IF nearer THEN Some(index + 1) ELSE closest
             diff2 == IF nearer THEN time_diff ELSE diff
         IN  IF ohlcv.timestamp > time
             THEN [data_index |-> index, closest_data |-> closest2]
             ELSE Scan(feed, index + 1, time, closest2, diff2)

\* The strategy called before the pending orders are handled.
PhasesSwapped == <<"strategy", "pending", "advance">>

\* The statements of one loop iteration after the scan, in source order:
\* handle_unfulfilled_orders, the strategy call, the advance of the time.
Phases == <<"pending", "strategy", "advance">>

NextPhase(p) ==
    LET k == CHOOSE n \in 1..Len(Phases) : Phases[n] = p
    IN  IF k < Len(Phases) THEN Phases[k + 1] ELSE "while"

\* The sample handed to the broker in the current iteration.
CurrentPrice == data_feed[CHOOSE k \in closest_data : TRUE]

\* The slice handed to the strategy: data_feed[..=data_index] when data_index
\* is inside the feed, the whole feed otherwise; its length.  The strategy
\* reads the last element of the slice.
PreviousLen ==
    IF data_index < Len(data_feed) THEN data_index + 1 ELSE Len(data_feed)

\* Broker::new and BrokerAnalytics::new.
NewBroker ==
    /\ cash = 0
    /\ fee_type = NoFee
    /\ slippage_range = <<0, 0>>
    /\ portfolio = <<>>
    /\ orders = <<>>
    /\ slippage_values = <<>>
    /\ slippage_index = 0
    /\ analytics = [added_funds |-> 0, total_placed_orders |-> 0,
                    total_exec_orders |-> 0, total_fees |-> 0,
                    total_slippage |-> 0]

\* BacktestEngine::new; the time range and the feed are set by the request.
NewEngine ==
    /\ data_feed = <<>>
    /\ time_range = <<0, 0>>
    /\ tick = 1
    /\ current_time = 0
    /\ data_index = 0
    /\ closest_data = None
    /\ pc = "config"
    /\ i = 0

\* HostState of WasmStrategy::new: the broker handle is None; no guest
\* call is in progress.
NewHostState ==
    /\ host_broker = None
    /\ guest = "idle"
    /\ aborted = FALSE
    /\ lent = None
    /\ host_calls = <<>>

\* The request handler before it has read a request: the statement it is
\* at, what it has read of the request and made of it (Options: the texts
\* of the dates and the dates, whether the strategy decodes and loads, the
\* text of the tick and its duration, whether the data were fetched, the
\* bounds handed to set_slippage), and its responses.
NewHandler ==
    [step |-> "start_date", start_text |-> None, start_date |-> None,
     end_text |-> None, end_date |-> None, decodes |-> None, loads |-> None,
     tick_text |-> None, duration |-> None, fetches |-> None,
     slippage |-> None, responses |-> <<>>]

\* ----------------------------------------------------------------- Init
InitRun(n) ==
    /\ NewBroker
    /\ NewEngine
    /\ examined = <<>>
    /\ fills = <<>>
    /\ placed_now = {}
    /\ tracker = NewTracker
    /\ result = None
    /\ events = <<>>
    /\ run_no = n
    /\ first_run = None
    /\ script = <<>>
    /\ NewHostState
    /\ handler = NewHandler
    /\ metrics = None

Init == InitRun(0)

\* -------------------------------------------------------------- actions
\* The pools set_slippage(min, max) can generate: PoolSize draws of the
\* thread-local generator, each anywhere in [min, max].
Pools(range) == [1..PoolSize -> range[1]..range[2]]

\* The slippage of a request: none (set_slippage is not called and the pool
\* stays empty), or a range with one of the pools it can generate.
NoSlippage == [range |-> <<0, 0>>, values |-> <<>>]
SlippageChoices ==
    {NoSlippage} \cup
    UNION {{[range |-> r, values |-> pool] : pool \in Pools(r)} : r \in SlippageRanges}

\* The request handler up to engine.run(): the engine with its time range,
\* set_tick, add_data, Broker::new, set_cash, set_fees and set_slippage when
\* the request carries them, set_broker.
ConfigureFrom(ticks, fees, slippages, feeds) ==
    /\ pc = "config"
    /\ \E c \in CashChoices, f \in fees, t \in ticks,
          tr \in TimeRanges, feed \in feeds :
          /\ cash' = c
          /\ analytics' = [analytics EXCEPT !.added_funds = @ + c]
          /\ fee_type' = f
          /\ tick' = t
          /\ time_range' = tr
          /\ data_feed' = feed
    /\ \E sl \in slippages :
          /\ slippage_range' = sl.range
          /\ slippage_values' = sl.values
          /\ slippage_index' = 0
    /\ pc' = "run"
    /\ UNCHANGED <<portfolio, orders, current_time, data_index, closest_data,
                   i, examined, fills, placed_now, tracker, result, events,
                   replayVars>>
    /\ UNCHANGED <<guestVars, handler, metrics>>

\* The same with the feeds of the runs.
ConfigureWith(ticks, fees, slippages) ==
    ConfigureFrom(ticks, fees, slippages, Feeds)

Configure == ConfigureWith(1..MaxTick, FeeChoices, SlippageChoices)

\* The feed is never taken for empty.
FeedNeverEmpty(feed) == FALSE

\* self.data_feed.is_empty()
FeedIsEmpty(feed) == feed = <<>>

\* BacktestEngine::run up to the loop: strategy.init(), the return on an
\* empty feed (the error DataFeedEmpty for the request handler),
\* current_time = from_time, data_index = 0; the tracker is told the
\* starting capital.
RunStart ==
    /\ pc = "run"
    /\ IF FeedIsEmpty(data_feed)
       THEN /\ pc' = "done"
            /\ result' = Some(DataFeedEmpty)
            /\ UNCHANGED <<current_time, data_index, tracker>>
       ELSE /\ pc' = "while"
            /\ current_time' = time_range[1]
            /\ data_index' = 0
            /\ tracker' = SetInitialCapital(tracker, cash)
            /\ UNCHANGED result
    /\ UNCHANGED <<brokerVars, configVars, closest_data, i, examined, fills,
                   placed_now, events, replayVars>>
    /\ UNCHANGED <<guestVars, handler, metrics>>

\* The loop test and the scan of the feed at the head of an iteration.
WhileTick ==
    /\ pc = "while"
    /\ IF current_time <= time_range[2]
       THEN LET scan == Scan(data_feed, data_index, current_time, None, 0)
            IN  /\ data_index' = scan.data_index
                /\ closest_data' = scan.closest_data
                /\ pc' = IF scan.closest_data # None
                         THEN Phases[1] ELSE "advance"
                /\ i' = 0
                /\ examined' = <<>>
                /\ placed_now' = {}
                /\ UNCHANGED result
       ELSE /\ pc' = "done"
            /\ result' = Some(BacktestResult)
            /\ UNCHANGED <<data_index, closest_data, i, examined, placed_now>>
    /\ UNCHANGED <<brokerVars, configVars, current_time, fills, tracker,
                   events, replayVars>>
    /\ metrics' = IF pc' = "done" THEN Some(ResultMetrics) ELSE metrics
    /\ UNCHANGED <<guestVars, handler>>

\* The index moves on after the removal of an executed order.
NextIndex(k) == k + 1

\* The Ok arm of try_execute_and_remove: after swap_remove(*i) the index is
\* left on the order that took the place of the removed one.
KeepIndex(k) == k

\* A failed execution ends the handle_unfulfilled_orders call.
StopAtFailed(k) == Len(orders)

\* The Err arm of try_execute_and_remove: the failure is logged, *i += 1.
SkipFailed(k) == k + 1

\* One iteration of the while loop of Broker::handle_unfulfilled_orders on
\* orders[i], with try_execute_and_remove and execute_order inlined.  The
\* call is made by the run loop with its current_time and its closest sample.
HandleOrder ==
    /\ pc = "pending"
    /\ i < Len(orders)
    /\ LET order == orders[i + 1]
           open == CurrentPrice.open
           r == ExecuteOrder(order, open)
           Note(outcome) == Append(examined, [order |-> order, outcome |-> outcome])
       IN  IF Expired(order, current_time)
           THEN /\ orders' = SwapRemove(orders, i)
                /\ examined' = Note("expired")
                /\ UNCHANGED <<cash, portfolio, slippage_index, analytics, i,
                               fills, tracker, events>>
           ELSE IF ~Triggered(order, open)
           THEN /\ i' = i + 1
                /\ examined' = Note("skipped")
                /\ UNCHANGED <<cash, portfolio, slippage_index, analytics,
                               orders, fills, tracker, events>>
           ELSE /\ cash' = r.cash
                /\ portfolio' = r.portfolio
                /\ slippage_index' = r.slippage_index
                /\ IF r.ok
                   THEN /\ analytics' =
                            [analytics EXCEPT !.total_fees = r.total_fees,
                                              !.total_slippage = r.total_slippage,
                                              !.total_exec_orders = @ + 1]
                        /\ orders' = SwapRemove(orders, i)
                        /\ examined' = Note("filled")
                        /\ fills' = Append(fills,
                                [order |-> order, time |-> current_time,
                                 price |-> r.execution_price, fees |-> r.fees])
                        /\ tracker' = Track(tracker, FillEvent(order,
                                                current_time, open, r))
                        /\ events' = Append(events, FillEvent(order,
                                                current_time, open, r))
                        /\ i' = KeepIndex(i)
                   ELSE /\ analytics' =
                            [analytics EXCEPT !.total_fees = r.total_fees,
                                              !.total_slippage = r.total_slippage]
                        /\ i' = SkipFailed(i)
                        /\ examined' = Note("failed")
                        /\ UNCHANGED <<orders, fills, tracker, events>>
    /\ UNCHANGED <<fee_type, slippage_range, slippage_values, configVars,
                   current_time, data_index, closest_data, pc, placed_now,
                   result, replayVars>>
    /\ UNCHANGED <<guestVars, handler, metrics>>

\* The exit of the loop of handle_unfulfilled_orders; the equity point of
\* the tick is recorded on the return of the call.
HandleDone ==
    /\ pc = "pending"
    /\ i >= Len(orders)
    /\ pc' = NextPhase("pending")
    /\ tracker' = TrackEquity(tracker, current_time, CurrentPrice)
    /\ UNCHANGED <<brokerVars, configVars, current_time, data_index,
                   closest_data, i, examined, fills, placed_now, result,
                   events, replayVars>>
    /\ UNCHANGED <<guestVars, handler, metrics>>

\* The orders the strategy may place next in its current call: any order in
\* a first run, the next order of the recorded call in a replay.
StrategyOrders ==
    IF run_no = 2
    THEN IF script # <<>> /\ Cardinality(placed_now) < Len(Head(script))
         THEN {Head(script)[Cardinality(placed_now) + 1]}
         ELSE {}
    ELSE OrderChoices

\* Broker::place_order, called by the strategy during its tick with one of
\* the orders it may build.  The id of an order is its rank in the
\* insertion order.
StrategyPlaceOf(choices) ==
    /\ pc = "strategy"
    /\ analytics.total_placed_orders < MaxOrders
    /\ \E o \in choices :
          LET id == analytics.total_placed_orders + 1
              order == [id |-> id, asset |-> o.asset, direction |-> o.direction,
                        size |-> o.size, order_type |-> o.order_type,
                        valid_until |-> o.valid_until]
          IN  /\ analytics' = [analytics EXCEPT !.total_placed_orders = @ + 1]
              /\ orders' = Append(orders, order)
              /\ placed_now' = placed_now \cup {id}
    /\ UNCHANGED <<cash, fee_type, slippage_range, portfolio, slippage_values,
                   slippage_index, configVars, current_time, data_index,
                   closest_data, pc, i, examined, fills, tracker, result,
                   events, replayVars>>
    /\ UNCHANGED <<guestVars, handler, metrics>>

StrategyPlace == StrategyPlaceOf(StrategyOrders)

\* The orders placed by the strategy call that is returning, as built.
PlacedNow ==
    LET placed == SelectSeq(orders, LAMBDA o : o.id \in placed_now)
    IN  [k \in 1..Len(placed) |->
            [asset |-> placed[k].asset, direction |-> placed[k].direction,
             size |-> placed[k].size, order_type |-> placed[k].order_type,
             valid_until |-> placed[k].valid_until]]

\* The return of the strategy call.
StrategyReturn ==
    /\ pc = "strategy"
    /\ StrategyOrders = {} \/ run_no # 2
    /\ pc' = NextPhase("strategy")
    /\ script' = CASE run_no = 1 -> Append(script, PlacedNow)
                   [] run_no = 2 /\ script # <<>> -> Tail(script)
                   [] OTHER -> script
    /\ UNCHANGED <<brokerVars, configVars, current_time, data_index,
                   closest_data, i, examined, fills, placed_now, tracker,
                   result, events, run_no, first_run>>
    /\ UNCHANGED <<guestVars, handler, metrics>>

\* current_time += tick and the early exit past the last sample; on the
\* exit the metrics of the result are computed.  A run whose time goes
\* backwards is followed for MaxBack time units.
Advance ==
    /\ pc = "advance"
    /\ current_time + tick >= time_range[1] - MaxBack
    /\ current_time' = current_time + tick
    /\ pc' = IF current_time' > data_feed[Len(data_feed)].timestamp
             THEN "done" ELSE NextPhase("advance")
    /\ result' = IF pc' = "done" THEN Some(BacktestResult) ELSE result
    /\ UNCHANGED <<brokerVars, configVars, data_index, closest_data, i,
                   examined, fills, placed_now, tracker, events, replayVars>>
    /\ metrics' = IF pc' = "done" THEN Some(ResultMetrics) ELSE metrics
    /\ UNCHANGED <<guestVars, handler>>

Next ==
    \/ Configure
    \/ RunStart
    \/ WhileTick
    \/ HandleOrder
    \/ HandleDone
    \/ StrategyPlace
    \/ StrategyReturn
    \/ Advance

Spec == Init /\ [][Next]_vars

\* ------------------------------------------------- runs with any tick
\* The tick intervals the request handler accepts include 0 ("0s", "0ns").
\* Requests without slippage keep the state of a run that never ends finite.
ConfigureAnyTick == ConfigureWith(0..MaxTick, FeeChoices, {NoSlippage})

\* The order of the strategy of these runs: a market buy of one unit.
AnyTickOrders ==
    [asset : {"A"}, direction : {"Buy"}, size : {1},
     order_type : {Market}, valid_until : {None}]

StrategyPlaceAnyTick == StrategyPlaceOf(AnyTickOrders)

NextAnyTick ==
    \/ ConfigureAnyTick
    \/ RunStart
    \/ WhileTick
    \/ HandleOrder
    \/ HandleDone
    \/ StrategyPlaceAnyTick
    \/ StrategyReturn
    \/ Advance

\* run() is a synchronous loop: a step that can be taken is taken.
TermSpec == Init /\ [][NextAnyTick]_vars /\ WF_vars(NextAnyTick)

\* ------------------------------------------- runs with trigger orders
\* Trigger prices between, and at, the open prices of the feeds.
TriggerPrices == {150, 200}

\* The orders of a strategy that works with limit and stop orders on one
\* asset: a market buy, and every limit and stop order of size 1.
TriggerOrders ==
    [asset : {"A"}, direction : {"Buy"}, size : {1},
     order_type : {Market}, valid_until : {None}]
    \cup
    [asset : {"A"}, direction : Directions, size : {1},
     order_type : {Limit(p) : p \in TriggerPrices}
                  \cup {Stop(p) : p \in TriggerPrices},
     valid_until : {None}]

ConfigureTrigger == ConfigureWith(1..MaxTick, {NoFee}, {NoSlippage})

StrategyPlaceTrigger == StrategyPlaceOf(TriggerOrders)

NextTrigger ==
    \/ ConfigureTrigger
    \/ RunStart
    \/ WhileTick
    \/ HandleOrder
    \/ HandleDone
    \/ StrategyPlaceTrigger
    \/ StrategyReturn
    \/ Advance

TriggerSpec == Init /\ [][NextTrigger]_vars

\* ------------------------------------------- runs with lots of two
\* The orders of a strategy that buys and sells one or two units of an
\* asset at the market, so that a sell can close a lot in part or several
\* lots, and buys a unit of another asset.
LedgerOrders ==
    [asset : {"A"}, direction : Directions, size : Sizes,
     order_type : {Market}, valid_until : {None}]
    \cup
    [asset : {"B"}, direction : {"Buy"}, size : {1},
     order_type : {Market}, valid_until : {None}]

\* Fee schedules under which two units can be bought with the cash.
LedgerFees == {NoFee, Flat(10)}

ConfigureLedger == ConfigureWith({1}, LedgerFees, SlippageChoices)

StrategyPlaceLedger == StrategyPlaceOf(LedgerOrders)

NextLedger ==
    \/ ConfigureLedger
    \/ RunStart
    \/ WhileTick
    \/ HandleOrder
    \/ HandleDone
    \/ StrategyPlaceLedger
    \/ StrategyReturn
    \/ Advance

LedgerSpec == Init /\ [][NextLedger]_vars

\* ------------------------------------------ the tracker on its own
\* The tracker driven directly by record_buy and record_sell calls, whatever
\* their order: buys at two prices, sells at a third, of one or two units,
\* without fees or slippage.  The time of a call is its rank.
BuyPrices == {100, 120}
SellPrices == {130}

RecordBuyCall ==
    /\ pc = "config"
    /\ Len(events) < MaxEvents
    /\ \E a \in Assets, p \in BuyPrices, q \in Sizes :
          LET e == Event("Buy", a, Len(events) + 1, p, q, 0, 0)
          IN  /\ tracker' = RecordBuy(tracker, e.asset, e.time, e.price,
                                      e.quantity, e.fees, e.slippage)
              /\ events' = Append(events, e)
    /\ UNCHANGED <<brokerVars, configVars, current_time, data_index,
                   closest_data, pc, i, examined, fills, placed_now, result,
                   replayVars>>
    /\ UNCHANGED <<guestVars, handler, metrics>>

RecordSellCall ==
    /\ pc = "config"
    /\ Len(events) < MaxEvents
    /\ \E a \in Assets, p \in SellPrices, q \in Sizes :
          LET e == Event("Sell", a, Len(events) + 1, p, q, 0, 0)
          IN  /\ tracker' = RecordSell(tracker, e.asset, e.time, e.price,
                                       e.quantity, e.fees, e.slippage)
              /\ events' = Append(events, e)
    /\ UNCHANGED <<brokerVars, configVars, current_time, data_index,
                   closest_data, pc, i, examined, fills, placed_now, result,
                   replayVars>>
    /\ UNCHANGED <<guestVars, handler, metrics>>

NextTracker ==
    \/ RecordBuyCall
    \/ RecordSellCall

TrackerSpec == Init /\ [][NextTracker]_vars

\* ------------------------------------- the tracker with fees on its own
\* The tracker driven directly by record_buy and record_sell calls on one
\* symbol, each call carrying a fee and a slippage per unit, so that lots
\* are closed in part and several lots by one sell.  The time of a call is
\* its rank.
FeeAssets == {"A"}
CallFees == {20, 40}
CallSlippages == {2}

RecordBuyFeeCall ==
    /\ pc = "config"
    /\ Len(events) < MaxEvents
    /\ \E a \in FeeAssets, p \in BuyPrices, q \in Sizes, f \in CallFees,
          sl \in CallSlippages :
          LET e == Event("Buy", a, Len(events) + 1, p, q, f, sl)
          IN  /\ tracker' = RecordBuy(tracker, e.asset, e.time, e.price,
                                      e.quantity, e.fees, e.slippage)
              /\ events' = Append(events, e)
    /\ UNCHANGED <<brokerVars, configVars, current_time, data_index,
                   closest_data, pc, i, examined, fills, placed_now, result,
                   replayVars, guestVars, handler, metrics>>

RecordSellFeeCall ==
    /\ pc = "config"
    /\ Len(events) < MaxEvents
    /\ \E a \in FeeAssets, p \in SellPrices, q \in Sizes, f \in CallFees,
          sl \in CallSlippages :
          LET e == Event("Sell", a, Len(events) + 1, p, q, f, sl)
          IN  /\ tracker' = RecordSell(tracker, e.asset, e.time, e.price,
                                       e.quantity, e.fees, e.slippage)
              /\ events' = Append(events, e)
    /\ UNCHANGED <<brokerVars, configVars, current_time, data_index,
                   closest_data, pc, i, examined, fills, placed_now, result,
                   replayVars, guestVars, handler, metrics>>

NextFee ==
    \/ RecordBuyFeeCall
    \/ RecordSellFeeCall

FeeSpec == Init /\ [][NextFee]_vars

\* ------------------------------------------- a position on its own
\* A Position driven directly: Position::new, then update and remove calls
\* of any quantity, those greater than the quantity held included.  The
\* position is the one of symbol "A" in the portfolio and the calls are
\* logged in events with their result.
PositionPrices == {100, 130}
NewQuantities == {0, 1, 2}
RemoveQuantities == {1, 2, 3}

PositionCall(call, quantity, price, ok) ==
    [call |-> call, quantity |-> quantity, price |-> price, ok |-> ok]

PositionFrame ==
    UNCHANGED <<cash, fee_type, slippage_range, orders, slippage_values,
                slippage_index, analytics, configVars, current_time,
                data_index, closest_data, pc, i, examined, fills, placed_now,
                tracker, result, replayVars, guestVars, handler, metrics>>

PositionNewCall ==
    /\ pc = "config"
    /\ events = <<>>
    /\ \E q \in NewQuantities, p \in PositionPrices :
          /\ portfolio' = ("A" :> PositionNew(q, p))
          /\ events' = Append(events, PositionCall("new", q, p, TRUE))
    /\ PositionFrame

PositionUpdateCall ==
    /\ pc = "config"
    /\ events # <<>>
    /\ Len(events) < MaxEvents
    /\ \E q \in Sizes, p \in PositionPrices :
          /\ portfolio' = [portfolio EXCEPT !["A"] = PositionUpdate(@, q, p)]
          /\ events' = Append(events, PositionCall("update", q, p, TRUE))
    /\ PositionFrame

PositionRemoveCall ==
    /\ pc = "config"
    /\ events # <<>>
    /\ Len(events) < MaxEvents
    /\ \E q \in RemoveQuantities :
          LET removed == PositionRemove(portfolio["A"], q)
          IN  /\ portfolio' = [portfolio EXCEPT !["A"] = removed.position]
              /\ events' = Append(events, PositionCall("remove", q, 0, removed.ok))
    /\ PositionFrame

NextPosition ==
    \/ PositionNewCall
    \/ PositionUpdateCall
    \/ PositionRemoveCall

PositionSpec == Init /\ [][NextPosition]_vars

\* ------------------------------------------ the metrics on their own
\* GlobalMetrics::calculate on any ledger and any equity curve: closed
\* trades of one unit bought at 100 and sold at a loss, at par or at a
\* profit, and equity points of positive value, in any order.
MaxTrades == 3
ExitPrices == {90, 100, 110}
EquityValues == {50, 100, 200}
\* Risk-free rates: none, and 2% a year.
RiskFreeRates == {Zero, <<1, 50>>}

PushTradeCall ==
    /\ pc = "config"
    /\ metrics = None
    /\ Len(tracker.closed_trades) < MaxTrades
    /\ \E exit_price \in ExitPrices :
          LET id == Len(tracker.closed_trades) + 1
              trade == TradeNew(id, "A", id, 100, 1, 0, 0)
          IN  tracker' = [tracker EXCEPT
                            !.closed_trades =
                               Append(@, TradeClose(trade, id + 1, exit_price,
                                                    0, 0))]
    /\ UNCHANGED <<brokerVars, configVars, current_time, data_index,
                   closest_data, pc, i, examined, fills, placed_now, result,
                   events, replayVars, guestVars, handler, metrics>>

RecordEquityCall ==
    /\ pc = "config"
    /\ metrics = None
    /\ Len(tracker.equity_curve) < MaxCurve
    /\ \E value \in EquityValues :
          tracker' = RecordEquitySnapshot(tracker,
                                          Len(tracker.equity_curve) + 1, value)
    /\ UNCHANGED <<brokerVars, configVars, current_time, data_index,
                   closest_data, pc, i, examined, fills, placed_now, result,
                   events, replayVars, guestVars, handler, metrics>>

CalculateCall ==
    /\ pc = "config"
    /\ metrics = None
    /\ \E risk_free_rate \in RiskFreeRates :
          metrics' = Some(CalculateMetrics(tracker.closed_trades,
                                           tracker.equity_curve,
                                           risk_free_rate))
    /\ UNCHANGED <<brokerVars, configVars, current_time, data_index,
                   closest_data, pc, i, examined, fills, placed_now, tracker,
                   result, events, replayVars, guestVars, handler>>

NextMetrics ==
    \/ PushTradeCall
    \/ RecordEquityCall
    \/ CalculateCall

MetricsSpec == Init /\ [][NextMetrics]_vars

\* ------------------------------------------- runs on a single sample
\* Feeds of length 1: the sample at the start of the time range, or at its
\* end.  The strategy buys and sells one unit at the market.
SingleFeeds == { << Sample(1, 100, 110) >>, << Sample(3, 100, 110) >> }

SingleOrders ==
    [asset : {"A"}, direction : Directions, size : {1},
     order_type : {Market}, valid_until : {None}]

ConfigureSingle == ConfigureFrom(1..MaxTick, {NoFee}, {NoSlippage}, SingleFeeds)

StrategyPlaceSingle == StrategyPlaceOf(SingleOrders)

NextSingle ==
    \/ ConfigureSingle
    \/ RunStart
    \/ WhileTick
    \/ HandleOrder
    \/ HandleDone
    \/ StrategyPlaceSingle
    \/ StrategyReturn
    \/ Advance

SingleSpec == Init /\ [][NextSingle]_vars

\* ------------------------------------------------------------- replay
\* A second run of the same request: the same feed, time range, tick, cash
\* and fee schedule, the same (min, max) handed to set_slippage, which draws
\* a new pool, and the same strategy, which places in each call the orders
\* it placed in that call of the first run.
ConfigureReplay == ConfigureWith(1..MaxTick, {NoFee}, SlippageChoices)

Outcome == [fills |-> fills, cash |-> cash, portfolio |-> portfolio]

Replay ==
    /\ pc = "done"
    /\ run_no = 1
    /\ run_no' = 2
    /\ first_run' = Some(Outcome)
    /\ cash' = analytics.added_funds
    /\ analytics' = [added_funds |-> analytics.added_funds,
                     total_placed_orders |-> 0, total_exec_orders |-> 0,
                     total_fees |-> 0, total_slippage |-> 0]
    /\ portfolio' = <<>>
    /\ orders' = <<>>
    /\ slippage_values' \in
          IF slippage_values = <<>> THEN {<<>>} ELSE Pools(slippage_range)
    /\ slippage_index' = 0
    /\ current_time' = 0
    /\ data_index' = 0
    /\ closest_data' = None
    /\ i' = 0
    /\ pc' = "run"
    /\ examined' = <<>>
    /\ fills' = <<>>
    /\ placed_now' = {}
    /\ tracker' = NewTracker
    /\ result' = None
    /\ events' = <<>>
    /\ UNCHANGED <<fee_type, slippage_range, configVars, script>>
    /\ metrics' = None
    /\ UNCHANGED <<guestVars, handler>>

NextReplay ==
    \/ ConfigureReplay
    \/ RunStart
    \/ WhileTick
    \/ HandleOrder
    \/ HandleDone
    \/ StrategyPlace
    \/ StrategyReturn
    \/ Advance
    \/ Replay

ReplaySpec == InitRun(1) /\ [][NextReplay]_vars

\* ---------------------------------------------------- request handler
\* The request handler run() of src/src/routes/run.rs.  The fields of the
\* request are drawn where the handler reads them.

\* The dates of a request: the start and the end of the time range as
\* "%Y-%m-%d %H:%M:%S" texts, named by the time they denote, and a text
\* that is no date.
StartDateTexts == {"date 1", "not a date"}
EndDateTexts == {"date 3", "not a date"}

\* NaiveDateTime::parse_from_str(time_str, "%Y-%m-%d %H:%M:%S"), an Option.
ParseTime(time_str) ==
    CASE time_str = "date 1" -> Some(1)
      [] time_str = "date 3" -> Some(3)
      [] OTHER -> None

\* The characters of the tick texts: a digit, the minus sign, the unit
\* letters and another letter.
TickChars == {"1", "-", "s", "n", "m"}
\* Longest tick text.
MaxTickLen == 3
TickTexts == UNION {[1..n -> TickChars] : n \in 0..MaxTickLen}

\* str::trim_end_matches(chars)
RECURSIVE TrimEndMatches(_, _)
TrimEndMatches(str, chars) ==
    IF str # <<>> /\ str[Len(str)] \in chars
    THEN TrimEndMatches(SubSeq(str, 1, Len(str) - 1), chars)
    ELSE str

\* str::ends_with(suffix)
EndsWith(str, suffix) ==
    /\ Len(suffix) <= Len(str)
    /\ SubSeq(str, Len(str) - Len(suffix) + 1, Len(str)) = suffix

DigitValue(c) == CASE c = "1" -> 1 [] OTHER -> 0
Digits == {"1"}

\* The value of a text of digits.
RECURSIVE Decimal(_)
Decimal(str) ==
    IF str = <<>> THEN 0
    ELSE 10 * Decimal(SubSeq(str, 1, Len(str) - 1)) + DigitValue(str[Len(str)])

\* str::parse::<i64>(), an Option: an optional sign and one digit or more.
ParseI64(str) ==
    LET signed == str # <<>> /\ str[1] \in {"+", "-"}
        digits == IF signed THEN Tail(str) ELSE str
    IN  IF digits # <<>> /\ \A k \in 1..Len(digits) : digits[k] \in Digits
        THEN Some(IF signed /\ str[1] = "-"
                  THEN 0 - Decimal(digits) ELSE Decimal(digits))
        ELSE None

\* `value as u32`: the value modulo 2^32, as its two halves of 16 bits.
AsU32(value) ==
    [high |-> (value \div 65536) % 65536, low |-> value % 65536]

\* chrono Duration::new(secs, nanos) with nanos a u32, an Option: None when
\* nanos is 1 000 000 000 (15258 * 65536 + 51712) or more.
DurationNew(secs, nanos) ==
    IF nanos.high > 15258 \/ (nanos.high = 15258 /\ nanos.low >= 51712)
    THEN None
    ELSE Some([secs |-> secs, nanos |-> nanos.high * 65536 + nanos.low])

\* The tick of the request (run.rs:91-117): Ok(duration) or the error
\* the handler answers with.
TickDuration(tick_text) ==
    LET parsed == ParseI64(TrimEndMatches(tick_text, {"s", "n"}))
    IN  IF parsed = None
        THEN [ok |-> FALSE, error |-> "Cannot parse tick duration"]
        ELSE LET value == CHOOSE v \in parsed : TRUE
                 duration == IF EndsWith(tick_text, <<"n", "s">>)
                             THEN DurationNew(0, AsU32(value))
                             ELSE DurationNew(value, AsU32(0))
             IN  IF duration = None
                 THEN [ok |-> FALSE, error |-> "Invalid tick duration value"]
                 ELSE [ok |-> TRUE, duration |-> CHOOSE d \in duration : TRUE]

\* The data of the request is fetched before its tick is read.
StepsFetchFirst ==
    <<"start_date", "end_date", "base64", "module", "fetch", "tick", "broker">>

\* The statements of the handler in source order.
HandlerSteps ==
    <<"start_date", "end_date", "base64", "module", "tick", "fetch", "broker">>

StepAfter(step) ==
    LET k == CHOOSE n \in 1..Len(HandlerSteps) : HandlerSteps[n] = step
    IN  HandlerSteps[k + 1]

\* StatusCode of the responses.
OK == 200
BAD_REQUEST == 400
INTERNAL_SERVER_ERROR == 500

\* The handler returns (status, Json(body)).
Respond(status, body) ==
    [handler EXCEPT !.step = "responded",
                    !.responses = Append(@, [status |-> status, body |-> body])]

\* The handler is at a statement of the request's preparation.
AtStep(step) == pc = "config" /\ handler.step = step

HandlerOnly ==
    UNCHANGED <<brokerVars, configVars, current_time, data_index,
                closest_data, pc, i, examined, fills, placed_now, tracker,
                result, events, replayVars, guestVars, metrics>>

\* run.rs:55-58
ParseStartDate ==
    /\ AtStep("start_date")
    /\ \E text \in StartDateTexts :
          handler' = IF ParseTime(text) = None
                     THEN [Respond(BAD_REQUEST, "Invalid date format")
                              EXCEPT !.start_text = Some(text)]
                     ELSE [handler EXCEPT !.start_text = Some(text),
                                          !.start_date = ParseTime(text),
                                          !.step = StepAfter("start_date")]
    /\ HandlerOnly

\* run.rs:60-63
ParseEndDate ==
    /\ AtStep("end_date")
    /\ \E text \in EndDateTexts :
          handler' = IF ParseTime(text) = None
                     THEN [Respond(BAD_REQUEST, "Invalid date format")
                              EXCEPT !.end_text = Some(text)]
                     ELSE [handler EXCEPT !.end_text = Some(text),
                                          !.end_date = ParseTime(text),
                                          !.step = StepAfter("end_date")]
    /\ HandlerOnly

\* run.rs:65-76: the strategy of the request decodes or does not.
DecodeStrategy ==
    /\ AtStep("base64")
    /\ \E decodes \in BOOLEAN :
          handler' = IF ~decodes
                     THEN [Respond(BAD_REQUEST, "Invalid base64 encoded WASM")
                              EXCEPT !.decodes = Some(FALSE)]
                     ELSE [handler EXCEPT !.decodes = Some(TRUE),
                                          !.step = StepAfter("base64")]
    /\ HandlerOnly

\* run.rs:78-89: WasmStrategy::new loads the module or fails.
LoadStrategy ==
    /\ AtStep("module")
    /\ \E loads \in BOOLEAN :
          handler' = IF ~loads
                     THEN [Respond(BAD_REQUEST, "Failed to load WASM strategy")
                              EXCEPT !.loads = Some(FALSE)]
                     ELSE [handler EXCEPT !.loads = Some(TRUE),
                                          !.step = StepAfter("module")]
    /\ HandlerOnly

\* run.rs:91-117: the tick of the request, when it has one.
ParseTick ==
    /\ AtStep("tick")
    /\ \E tick_text \in {None} \cup {Some(t) : t \in TickTexts} :
          handler' =
             IF tick_text = None
             THEN [handler EXCEPT !.step = StepAfter("tick")]
             ELSE LET text == CHOOSE t \in tick_text : TRUE
                      r == TickDuration(text)
                  IN  IF r.ok
                      THEN [handler EXCEPT !.tick_text = tick_text,
                                           !.duration = Some(r.duration),
                                           !.step = StepAfter("tick")]
                      ELSE [Respond(BAD_REQUEST, r.error)
                               EXCEPT !.tick_text = tick_text]
    /\ HandlerOnly

\* run.rs:119-138: polygon_aggregate answers or fails.
FetchData ==
    /\ AtStep("fetch")
    /\ \E fetches \in BOOLEAN :
          handler' =
             IF ~fetches
             THEN [Respond(INTERNAL_SERVER_ERROR, "Failed to fetch OHLCV data")
                      EXCEPT !.fetches = Some(FALSE)]
             ELSE [handler EXCEPT !.fetches = Some(TRUE),
                                  !.step = StepAfter("fetch")]
    /\ HandlerOnly

\* The fees and the slippage bounds a request may carry: no fee, a
\* Percentage of 1.5; no slippage, and bounds with min > max.
RequestFees == {NoFee, Percentage(15)}
EmptyRanges == {<<1, 0>>}

\* The tick of the engine after set_tick, in time units; a tick of less
\* than a time unit is not followed into the run.
RequestTicks ==
    IF handler.duration = None THEN {1}
    ELSE {d.secs : d \in {x \in handler.duration : x.nanos = 0}}

\* run.rs:140-149: the broker of the request and set_broker.
ConfigureRequest ==
    /\ AtStep("broker")
    /\ ConfigureWith(RequestTicks, RequestFees, {NoSlippage})

\* run.rs:145-147 with min > max: random_range of set_slippage
\* (execution.rs:72) panics on the empty range and the handler with it.
ConfigurePanics ==
    /\ AtStep("broker")
    /\ \E range \in EmptyRanges :
          handler' = [handler EXCEPT !.step = "panicked",
                                     !.slippage = Some(range)]
    /\ HandlerOnly

\* run.rs:151-157: the response to the outcome of engine.run().
RespondToRun ==
    /\ pc = "done"
    /\ handler.step = "broker"
    /\ handler' = IF result = Some(BacktestResult)
                  THEN Respond(OK, BacktestResult)
                  ELSE Respond(INTERNAL_SERVER_ERROR, CHOOSE e \in result : TRUE)
    /\ HandlerOnly

NextRequest ==
    \/ ParseStartDate
    \/ ParseEndDate
    \/ DecodeStrategy
    \/ LoadStrategy
    \/ ParseTick
    \/ FetchData
    \/ ConfigureRequest
    \/ ConfigurePanics
    \/ RunStart
    \/ WhileTick
    \/ HandleOrder
    \/ HandleDone
    \/ StrategyPlaceAnyTick
    \/ StrategyReturn
    \/ Advance
    \/ RespondToRun

RequestSpec == Init /\ [][NextRequest]_vars

\* ---------------------------------------------------- the wasm strategy
\* WasmStrategy as the strategy of the run.  The guest's init and tick
\* functions make host calls; each host call is a step.

\* Largest number of host calls the guest makes in a run.
MaxCalls == 2

\* The linear memory of the guest: its bytes.  The only text in it is the
\* asset name "A" at address 0.
Memory == <<"A">>

\* The arguments the guest passes to a host function.
AssetPtrs == {0, 1}
AssetLens == {1}
DirectionArgs == {0, 1, 2}
HostFunctions == {"place_market_order", "place_limit_order"}
\* The price argument of place_limit_order.
GuestLimitPrice == 100

HostCalls ==
    [function : HostFunctions, asset_ptr : AssetPtrs, asset_len : AssetLens,
     direction : DirectionArgs, during : {"init", "tick"}]

\* &data[asset_ptr as usize..(asset_ptr + asset_len) as usize] is inside the
\* memory; the index panics when it is not.
SliceInRange(asset_ptr, asset_len) ==
    /\ 0 <= asset_ptr
    /\ asset_ptr <= asset_ptr + asset_len
    /\ asset_ptr + asset_len <= Len(Memory)

\* String::from_utf8_lossy of the slice: the name at that address.
AssetAt(asset_ptr, asset_len) == Memory[asset_ptr + 1]

\* match direction { 0 => Buy, 1 => Sell, _ => return }, an Option.
OrderDirectionOf(direction) ==
    CASE direction = 0 -> Some("Buy")
      [] direction = 1 -> Some("Sell")
      [] OTHER -> None

\* The order type each host function builds.
OrderTypeOf(function) ==
    IF function = "place_limit_order" THEN Limit(GuestLimitPrice) ELSE Market

\* The engine's broker as a value.
BrokerValue ==
    [cash |-> cash, fee_type |-> fee_type, slippage_range |-> slippage_range,
     portfolio |-> portfolio, orders |-> orders,
     slippage_values |-> slippage_values, slippage_index |-> slippage_index,
     analytics |-> analytics]

\* Broker::new() as a value.
BrokerNew ==
    [cash |-> 0, fee_type |-> NoFee, slippage_range |-> <<0, 0>>,
     portfolio |-> <<>>, orders |-> <<>>, slippage_values |-> <<>>,
     slippage_index |-> 0,
     analytics |-> [added_funds |-> 0, total_placed_orders |-> 0,
                    total_exec_orders |-> 0, total_fees |-> 0,
                    total_slippage |-> 0]]

\* *broker = b
SetBroker(b) ==
    /\ cash' = b.cash
    /\ fee_type' = b.fee_type
    /\ slippage_range' = b.slippage_range
    /\ portfolio' = b.portfolio
    /\ orders' = b.orders
    /\ slippage_values' = b.slippage_values
    /\ slippage_index' = b.slippage_index
    /\ analytics' = b.analytics

\* The order is pushed and not counted.
PlaceOrderUncounted(b, order) ==
    [b EXCEPT !.orders = Append(@, [id |-> b.analytics.total_placed_orders + 1,
                                    asset |-> order.asset,
                                    direction |-> order.direction,
                                    size |-> order.size,
                                    order_type |-> order.order_type,
                                    valid_until |-> order.valid_until])]

\* Broker::place_order on a broker value.
PlaceOrderIn(b, order) ==
    [b EXCEPT !.analytics.total_placed_orders = @ + 1,
              !.orders = Append(@, [id |-> b.analytics.total_placed_orders + 1,
                                    asset |-> order.asset,
                                    direction |-> order.direction,
                                    size |-> order.size,
                                    order_type |-> order.order_type,
                                    valid_until |-> order.valid_until])]

\* The handle is left as it is when the broker is taken back.
HandleKept(handle) == handle

\* Option::take leaves None in the handle.
HandleAfterTake(handle) == None

\* A host function placing an order, called by the guest: the slice of the
\* memory is indexed first (a panic of the host when it is out of range,
\* which unwinds through the guest call and the run), then the direction
\* is matched (a return on an unknown value), then the order is placed in
\* the broker of the handle, if there is one.
HostPlaceOrder(call) ==
    /\ Len(host_calls) < MaxCalls
    /\ host_calls' = Append(host_calls, call)
    /\ IF ~SliceInRange(call.asset_ptr, call.asset_len)
       THEN /\ pc' = "panicked"
            /\ guest' = "panicked"
            /\ UNCHANGED <<host_broker, placed_now>>
       ELSE /\ UNCHANGED <<pc, guest>>
            /\ IF OrderDirectionOf(call.direction) = None \/ host_broker = None
               THEN UNCHANGED <<host_broker, placed_now>>
               ELSE LET b == CHOOSE x \in host_broker : TRUE
                        order ==
                            [asset |-> AssetAt(call.asset_ptr, call.asset_len),
                             direction |->
                                 CHOOSE d \in OrderDirectionOf(call.direction) : TRUE,
                             size |-> 1,
                             order_type |-> OrderTypeOf(call.function),
                             valid_until |-> None]
                    IN  /\ b.analytics.total_placed_orders < MaxOrders
                        /\ host_broker' = Some(PlaceOrderIn(b, order))
                        /\ placed_now' = placed_now
                               \cup {b.analytics.total_placed_orders + 1}
    /\ UNCHANGED <<brokerVars, configVars, current_time, data_index,
                   closest_data, i, examined, fills, tracker, result, events,
                   replayVars, aborted, lent, handler, metrics>>

\* A host call of the guest's init function, which run() calls first.
InitHostCall ==
    /\ pc = "run"
    /\ guest = "idle"
    /\ \E call \in HostCalls : call.during = "init" /\ HostPlaceOrder(call)

\* WasmStrategy::tick up to the guest call: the engine's broker is moved
\* into the handle and Broker::new() is left in its place.
TickEnter ==
    /\ pc = "strategy"
    /\ guest = "idle"
    /\ host_broker' = Some(BrokerValue)
    /\ lent' = Some(BrokerValue)
    /\ SetBroker(BrokerNew)
    /\ guest' = "tick"
    /\ aborted' = FALSE
    /\ UNCHANGED <<configVars, current_time, data_index, closest_data, pc, i,
                   examined, fills, placed_now, tracker, result, events,
                   replayVars, host_calls, handler, metrics>>

\* A host call of the guest's tick function.
TickHostCall ==
    /\ pc = "strategy"
    /\ guest = "tick"
    /\ \E call \in HostCalls : call.during = "tick" /\ HostPlaceOrder(call)

\* The abort host function: it logs and returns to the guest.
GuestAbort ==
    /\ pc = "strategy"
    /\ guest = "tick"
    /\ ~aborted
    /\ aborted' = TRUE
    /\ UNCHANGED <<brokerVars, configVars, current_time, data_index,
                   closest_data, pc, i, examined, fills, placed_now, tracker,
                   result, events, replayVars, host_broker, guest, lent,
                   host_calls, handler, metrics>>

\* A trap of the guest: tick_fn.call returns an error.
GuestTrap ==
    /\ pc = "strategy"
    /\ guest = "tick"
    /\ guest' = "trapped"
    /\ UNCHANGED <<brokerVars, configVars, current_time, data_index,
                   closest_data, pc, i, examined, fills, placed_now, tracker,
                   result, events, replayVars, host_broker, aborted, lent,
                   host_calls, handler, metrics>>

\* WasmStrategy::tick from the return of the guest call: its result is
\* discarded with ok(), the broker is taken out of the handle and given
\* back to the engine.
TickReturn ==
    /\ pc = "strategy"
    /\ guest \in {"tick", "trapped"}
    /\ IF host_broker # None
       THEN SetBroker(CHOOSE b \in host_broker : TRUE)
       ELSE UNCHANGED brokerVars
    /\ host_broker' = HandleAfterTake(host_broker)
    /\ guest' = "idle"
    /\ pc' = NextPhase("strategy")
    /\ UNCHANGED <<configVars, current_time, data_index, closest_data, i,
                   examined, fills, placed_now, tracker, result, events,
                   replayVars, aborted, lent, host_calls, handler, metrics>>

ConfigureGuest == ConfigureFrom({1}, {NoFee}, {NoSlippage}, Feeds)

NextGuest ==
    \/ ConfigureGuest
    \/ InitHostCall
    \/ RunStart
    \/ WhileTick
    \/ HandleOrder
    \/ HandleDone
    \/ TickEnter
    \/ TickHostCall
    \/ GuestAbort
    \/ GuestTrap
    \/ TickReturn
    \/ Advance

GuestSpec == Init /\ [][NextGuest]_vars

\* -------------------------------------------------------------- claims
\* The step is an iteration of handle_unfulfilled_orders on orders[i].
Examining == pc = "pending" /\ i < Len(orders)

\* The broker state an execution can touch, apart from the book.
Account == <<cash, portfolio, analytics, slippage_index>>

\* The order with this id is in the book.
InBook(book, id) == \E k \in 1..Len(book) : book[k].id = id

\* The trigger of section 4.1 against an open price.
TriggerHolds(o, open) ==
    \/ o.order_type.kind = "Market"
    \/ /\ o.order_type.kind = "Limit"
       /\ \/ (o.direction = "Buy" /\ open <= o.order_type.price)
          \/ (o.direction = "Sell" /\ open >= o.order_type.price)
    \/ /\ o.order_type.kind = "Stop"
       /\ \/ (o.direction = "Buy" /\ open >= o.order_type.price)
          \/ (o.direction = "Sell" /\ open <= o.order_type.price)

\* The step attempted orders[i] and the execution failed: the book is as
\* before and the loop moved on past an order whose trigger holds.
FailedAttempt ==
    /\ Examining
    /\ \A v \in orders[i + 1].valid_until : current_time <= v
    /\ TriggerHolds(orders[i + 1], CurrentPrice.open)
    /\ i' = i + 1

\* C1: a rejected execution never mutates state: when an attempt fails the
\* order stays in the book and cash, portfolio, total_fees, total_slippage,
\* the executed counter and the cursor of the slippage pool are as before.
C1_RejectedNeverMutates ==
    [][FailedAttempt =>
          /\ orders' = orders
          /\ cash' = cash
          /\ portfolio' = portfolio
          /\ analytics'.total_fees = analytics.total_fees
          /\ analytics'.total_slippage = analytics.total_slippage
          /\ analytics'.total_exec_orders = analytics.total_exec_orders
          /\ slippage_index' = slippage_index]_vars

\* C2: within a handle_unfulfilled_orders call the orders are examined in
\* insertion order, and the orders left in the book keep their relative
\* insertion order, also after fills and expiries.
C2_InsertionOrder ==
    /\ \A j, k \in 1..Len(examined) :
          j < k => examined[j].order.id < examined[k].order.id
    /\ \A j, k \in 1..Len(orders) : j < k => orders[j].id < orders[k].id

\* C3: cash never falls below zero after a completed execution, for every
\* fee schedule and every successful buy or sell.
C3_CashNeverNegative == cash >= 0

\* The sample of the feed a tick at this time may use: the last one whose
\* timestamp is not later than the time.
IsLastKnown(k, time) ==
    /\ data_feed[k].timestamp <= time
    /\ \A m \in 1..Len(data_feed) :
          data_feed[m].timestamp <= time => m <= k

\* C4: at every tick the sample handed to the broker and the one shown to
\* the strategy is the last sample whose timestamp is <= the tick's time; a
\* later sample is never used.
C4_NoLookAhead ==
    /\ pc = "pending" => \A k \in closest_data : IsLastKnown(k, current_time)
    /\ pc = "strategy" => IsLastKnown(PreviousLen, current_time)

\* C5: an order placed by the strategy during a tick is not examined, and so
\* not executed, by the handle_unfulfilled_orders call of that tick.
C5_NeverIntraTick ==
    \A k \in 1..Len(examined) : examined[k].order.id \notin placed_now

\* C5 witness: in one tick an earlier order was executed and the strategy
\* then placed a new one.
C5_Witness ==
    /\ placed_now # {}
    /\ \E k \in 1..Len(examined) : examined[k].outcome = "filled"

\* C6: an order with valid_until < current_time never executes: the step
\* that examines it removes it from the book and changes neither cash,
\* portfolio, fees, slippage total, executed counter nor the executions.
C6_ExpiredNeverExecute ==
    [][(Examining /\ \E v \in orders[i + 1].valid_until : v < current_time) =>
          /\ ~InBook(orders', orders[i + 1].id)
          /\ Len(orders') = Len(orders) - 1
          /\ UNCHANGED <<Account, fills>>]_vars

\* C6 witness: an expired order was dropped at a tick whose open price met
\* its trigger.
C6_Witness ==
    \E k \in 1..Len(examined) :
        /\ examined[k].outcome = "expired"
        /\ TriggerHolds(examined[k].order, CurrentPrice.open)

\* C7: an order whose valid_until equals the current tick time is still
\* live: the step does not drop it (it stays in the book unless it is
\* executed) and evaluates its trigger: the order is attempted exactly when
\* the trigger holds against the open price.
C7_LiveAtExpiryTime ==
    [][(Examining /\ orders[i + 1].valid_until = {current_time}) =>
          LET o == orders[i + 1]
              filled == /\ Len(fills') = Len(fills) + 1
                        /\ fills'[Len(fills')].order = o
                        /\ fills'[Len(fills')].time = current_time
              seen == examined'[Len(examined')]
          IN  /\ InBook(orders', o.id) # filled
              /\ Len(examined') = Len(examined) + 1
              /\ seen.order = o
              /\ seen.outcome \in {"filled", "failed"}
                    <=> TriggerHolds(o, CurrentPrice.open)
              /\ seen.outcome = "skipped"
                    <=> ~TriggerHolds(o, CurrentPrice.open)
              /\ seen.outcome = "filled" <=> filled]_vars

\* C7 witness: an order was executed at the tick equal to its valid_until.
C7_Witness ==
    \E k \in 1..Len(fills) : fills[k].order.valid_until = {fills[k].time}

\* C8: run() terminates for every non-empty finite feed, every time range
\* and every tick interval the request handler accepts.
C8_Terminates == <>(pc = "done")

\* The executed buys minus the executed sells of an asset.
RECURSIVE NetBought(_, _)
NetBought(fs, a) ==
    IF fs = <<>>
    THEN 0
    ELSE (IF Head(fs).order.asset # a THEN 0
          ELSE IF Head(fs).order.direction = "Buy"
               THEN Head(fs).order.size ELSE 0 - Head(fs).order.size)
         + NetBought(Tail(fs), a)

\* C9: for every symbol the executed buy sizes minus the executed sell sizes
\* equal the quantity of the position, and the symbol is absent from the
\* portfolio exactly when the difference is zero.
C9_PositionsMatchExecutions ==
    \A a \in Assets :
        /\ a \in DOMAIN portfolio <=> NetBought(fills, a) # 0
        /\ a \in DOMAIN portfolio => portfolio[a].quantity = NetBought(fills, a)

\* C9 witness: an asset was bought twice and sold once, and one unit is left.
C9_Witness ==
    /\ Len(fills) = 3
    /\ \E a \in DOMAIN portfolio :
          /\ portfolio[a].quantity = 1
          /\ \E k \in 1..Len(fills) :
                fills[k].order.asset = a /\ fills[k].order.direction = "Sell"

\* C10: two runs with identical feed, strategy and broker configuration give
\* the same executions at the same prices and the same final account.
C10_DeterministicReplay ==
    (run_no = 2 /\ pc = "done") => first_run = Some(Outcome)

\* The order is not past its valid_until at the current tick.
Unexpired(o) == \A v \in o.valid_until : current_time <= v

\* The price an execution attempted now gets: the open price moved by the
\* draw of the slippage pool under the cursor.
PriceNow(open) ==
    IF slippage_values = <<>>
    THEN open
    ELSE LET draw == slippage_values[(slippage_index % Len(slippage_values)) + 1]
         IN  (open * (One + draw)) \div One

\* The fee of the schedule on an amount: the flat amount, or the fraction
\* of the amount.
FeeOn(amount) ==
    IF fee_type.kind = "Flat" THEN fee_type.value
    ELSE IF fee_type.kind = "Percentage" THEN (amount * fee_type.value) \div One
    ELSE 0

\* The order can be executed now: a buy is covered by the cash, fee
\* included; a sell is covered by the position.
Executable(o, open) ==
    IF o.direction = "Buy"
    THEN cash >= o.size * PriceNow(open) + FeeOn(o.size * PriceNow(open))
    ELSE /\ o.asset \in DOMAIN portfolio
         /\ portfolio[o.asset].quantity >= o.size

\* The step executed orders[i]: it is the newest execution, at the current
\* tick, and the order has left the book.
FilledNow ==
    /\ Len(fills') = Len(fills) + 1
    /\ fills'[Len(fills')].order = orders[i + 1]
    /\ fills'[Len(fills')].time = current_time
    /\ ~InBook(orders', orders[i + 1].id)

\* C11: an order whose execution fails is left in the book and the call
\* goes on to the remaining orders: when handle_unfulfilled_orders returns,
\* every order still in the book has been examined by this call, so a
\* failed order is examined again at each later tick; and an order that is
\* examined while unexpired, triggered and executable is executed.
C11_FailedOrderRetried ==
    [][/\ (Examining /\ Unexpired(orders[i + 1])
           /\ TriggerHolds(orders[i + 1], CurrentPrice.open)
           /\ ~Executable(orders[i + 1], CurrentPrice.open)) =>
              /\ orders' = orders
              /\ pc' = "pending"
              /\ fills' = fills
              /\ examined'[Len(examined')] =
                    [order |-> orders[i + 1], outcome |-> "failed"]
       /\ (pc = "pending" /\ pc' # "pending") =>
              \A k \in 1..Len(orders) :
                 \E j \in 1..Len(examined) : examined[j].order = orders[k]
       /\ (Examining /\ Unexpired(orders[i + 1])
           /\ TriggerHolds(orders[i + 1], CurrentPrice.open)
           /\ Executable(orders[i + 1], CurrentPrice.open)) => FilledNow]_vars

\* C11 witness: a market order was executed at a later tick than an order
\* placed after it: it was attempted at that earlier tick, failed, stayed
\* in the book and was executed when it had become executable.
C11_Witness ==
    \E j, k \in 1..Len(fills) :
        /\ fills[k].order.id < fills[j].order.id
        /\ fills[k].time > fills[j].time
        /\ fills[k].order.order_type.kind = "Market"
        /\ fills[k].order.valid_until = None

HeldQuantity(pf, a) == IF a \in DOMAIN pf THEN pf[a].quantity ELSE 0
HeldAverage(pf, a) == IF a \in DOMAIN pf THEN pf[a].average_price ELSE <<0, 1>>

\* C13: an attempted buy succeeds exactly when cash >= size * exec_price +
\* fee, where the fee is the flat amount or the fraction of size *
\* exec_price; on success cash falls by exactly that sum, total_fees grows
\* by the fee, the executed counter by one, the order leaves the book, and
\* the position's quantity grows by size with the average price
\* (avg * qty + exec_price * size) / (qty + size).
C13_BuySemantics ==
    [][(Examining /\ Unexpired(orders[i + 1])
        /\ TriggerHolds(orders[i + 1], CurrentPrice.open)
        /\ orders[i + 1].direction = "Buy") =>
          LET o == orders[i + 1]
              exec_price == PriceNow(CurrentPrice.open)
              amount == o.size * exec_price
              fee == FeeOn(amount)
              qty == HeldQuantity(portfolio, o.asset)
              avg == HeldAverage(portfolio, o.asset)
          IN  IF cash >= amount + fee
              THEN /\ FilledNow
                   /\ fills'[Len(fills')].price = exec_price
                   /\ fills'[Len(fills')].fees = fee
                   /\ cash' = cash - (amount + fee)
                   /\ analytics'.total_fees = analytics.total_fees + fee
                   /\ analytics'.total_exec_orders =
                         analytics.total_exec_orders + 1
                   /\ o.asset \in DOMAIN portfolio'
                   /\ portfolio'[o.asset].quantity = qty + o.size
                   /\ portfolio'[o.asset].average_price[1]
                         * (avg[2] * (qty + o.size))
                      = (avg[1] * qty + exec_price * o.size * avg[2])
                         * portfolio'[o.asset].average_price[2]
                   /\ \A a \in DOMAIN portfolio \ {o.asset} :
                         a \in DOMAIN portfolio' /\ portfolio'[a] = portfolio[a]
              ELSE /\ fills' = fills
                   /\ orders' = orders
                   /\ cash' = cash
                   /\ portfolio' = portfolio
                   /\ analytics'.total_exec_orders = analytics.total_exec_orders
                   /\ analytics'.total_fees = analytics.total_fees]_vars

\* C13 witness: under a Percentage fee a second buy of an asset was executed
\* at another price than the first, and the average price of the position
\* lies between the two.
C13_Witness ==
    /\ fee_type.kind = "Percentage"
    /\ \E a \in DOMAIN portfolio :
          /\ portfolio[a].quantity = 2
          /\ \E j, k \in 1..Len(fills) :
                /\ fills[j].order.asset = a /\ fills[k].order.asset = a
                /\ fills[j].order.direction = "Buy"
                /\ fills[k].order.direction = "Buy"
                /\ fills[j].fees > 0
                /\ fills[j].price * portfolio[a].average_price[2]
                      < portfolio[a].average_price[1]
                /\ portfolio[a].average_price[1]
                      < fills[k].price * portfolio[a].average_price[2]

\* C14: an attempted sell succeeds exactly when the portfolio holds a
\* position of the symbol with quantity >= size; on success cash grows by
\* size * exec_price minus the fee, the quantity of the position falls by
\* size, and the position is deleted when the quantity reaches 0; otherwise
\* the sell fails and nothing is sold.
C14_SellSemantics ==
    [][(Examining /\ Unexpired(orders[i + 1])
        /\ TriggerHolds(orders[i + 1], CurrentPrice.open)
        /\ orders[i + 1].direction = "Sell") =>
          LET o == orders[i + 1]
              exec_price == PriceNow(CurrentPrice.open)
              amount == o.size * exec_price
              fee == FeeOn(amount)
              qty == HeldQuantity(portfolio, o.asset)
          IN  IF o.asset \in DOMAIN portfolio /\ qty >= o.size
              THEN /\ FilledNow
                   /\ fills'[Len(fills')].price = exec_price
                   /\ fills'[Len(fills')].fees = fee
                   /\ cash' = cash + amount - fee
                   /\ o.asset \in DOMAIN portfolio' <=> qty - o.size # 0
                   /\ o.asset \in DOMAIN portfolio' =>
                         portfolio'[o.asset].quantity = qty - o.size
                   /\ \A a \in DOMAIN portfolio \ {o.asset} :
                         a \in DOMAIN portfolio' /\ portfolio'[a] = portfolio[a]
              ELSE /\ fills' = fills
                   /\ orders' = orders
                   /\ cash' = cash
                   /\ portfolio' = portfolio
                   /\ examined'[Len(examined')].outcome = "failed"]_vars

\* C14 witness: under a fee, the newest execution is a sell of a part of a
\* position, which is left in the portfolio with the rest.
C14_Witness ==
    /\ fills # <<>>
    /\ LET sold == fills[Len(fills)]
       IN  /\ sold.order.direction = "Sell"
           /\ sold.fees > 0
           /\ sold.order.asset \in DOMAIN portfolio
           /\ portfolio[sold.order.asset].quantity = 1

\* C15: an unexpired order is attempted at a tick exactly when its trigger
\* holds against the open price of the tick; an order whose trigger does
\* not hold stays in the book and the step changes no broker state.
C15_TriggerSemantics ==
    [][(Examining /\ Unexpired(orders[i + 1])) =>
          LET o == orders[i + 1]
              seen == examined'[Len(examined')]
          IN  /\ Len(examined') = Len(examined) + 1
              /\ seen.order = o
              /\ seen.outcome \in {"filled", "failed"}
                    <=> TriggerHolds(o, CurrentPrice.open)
              /\ ~TriggerHolds(o, CurrentPrice.open) =>
                    /\ seen.outcome = "skipped"
                    /\ orders' = orders
                    /\ UNCHANGED <<Account, fills, tracker>>]_vars

\* C15 witness: at one tick a stop order was executed at an open price
\* equal to its trigger price and a limit order of the other direction was
\* left in the book.
C15_Witness ==
    \E j, k \in 1..Len(examined) :
        /\ examined[j].outcome = "filled"
        /\ examined[j].order.order_type = Stop(CurrentPrice.open)
        /\ examined[k].outcome = "skipped"
        /\ examined[k].order.order_type.kind = "Limit"
        /\ examined[k].order.direction # examined[j].order.direction

\* The queue of open lots of a symbol in a tracker.
Lots(tr, a) == IF a \in DOMAIN tr.open_trades THEN tr.open_trades[a] ELSE <<>>

\* The step handed a sell event to the tracker.
SoldNow ==
    /\ Len(events') = Len(events) + 1
    /\ events'[Len(events')].side = "Sell"

\* C16: a sell consumes the open lots of its symbol strictly oldest first.
\* Every queue holds its lots oldest first; a sell closes a prefix of the
\* queue of its symbol and may reduce the next lot, nothing else: the lots
\* left are a suffix of the previous queue in unchanged order, the lots
\* behind the head of the suffix are untouched, and the queues of the other
\* symbols are as before.
C16_FifoLots ==
    /\ [](\A a \in Assets :
            \A j, k \in 1..Len(Lots(tracker, a)) :
               j < k =>
                  /\ Lots(tracker, a)[j].id < Lots(tracker, a)[k].id
                  /\ Lots(tracker, a)[j].entry_time
                        <= Lots(tracker, a)[k].entry_time)
    /\ [][SoldNow =>
            LET e == events'[Len(events')]
                before == Lots(tracker, e.asset)
                after == Lots(tracker', e.asset)
                m == Len(before) - Len(after)
            IN  /\ m >= 0
                /\ \A k \in 2..Len(after) : after[k] = before[m + k]
                /\ after # <<>> =>
                      /\ after[1].id = before[m + 1].id
                      /\ after[1].entry_price = before[m + 1].entry_price
                      /\ after[1].quantity > 0
                      /\ after[1].quantity <= before[m + 1].quantity
                /\ \A b \in Assets \ {e.asset} :
                      Lots(tracker', b) = Lots(tracker, b)]_vars

\* C16 witness: Buy 1@100, Buy 1@120, Sell 1@130 of one symbol: the lot
\* bought at 100 is closed with a profit of 30 and the lot bought at 120 is
\* the only open one.
C16_Witness ==
    /\ Len(events) = 3
    /\ Len(tracker.closed_trades) = 1
    /\ tracker.closed_trades[1].entry_price = 100
    /\ tracker.closed_trades[1].exit_price = Some(130)
    /\ tracker.closed_trades[1].profit_loss = Some(30)
    /\ \E a \in Assets :
          /\ Len(Lots(tracker, a)) = 1
          /\ Lots(tracker, a)[1].entry_price = 120
          /\ tracker.closed_trades[1].asset = a

\* The sum of the quantities of a sequence of lots, trades or events.
RECURSIVE SumQuantity(_)
SumQuantity(seq) ==
    IF seq = <<>> THEN 0 ELSE Head(seq).quantity + SumQuantity(Tail(seq))

\* The closed trades of a symbol, and the buy events of a symbol.
ClosedOf(tr, a) == SelectSeq(tr.closed_trades, LAMBDA t : t.asset = a)
BoughtOf(es, a) == SelectSeq(es, LAMBDA e : e.side = "Buy" /\ e.asset = a)

Smaller(x, y) == IF x < y THEN x ELSE y

\* C17: tracker quantity conservation.  For every symbol the open-lot
\* quantities plus the closed-trade quantities add up to the bought
\* quantities, and every open lot has a quantity > 0; a sell of size Q
\* closes exactly min(Q, total open quantity) of its symbol; and Buy(n)
\* followed by Sell(k < n) leaves one open lot of n - k and exactly one
\* closed trade of k.
C17_QuantityConserved ==
    /\ [](\A a \in Assets :
            /\ SumQuantity(Lots(tracker, a)) + SumQuantity(ClosedOf(tracker, a))
                  = SumQuantity(BoughtOf(events, a))
            /\ \A k \in 1..Len(Lots(tracker, a)) :
                  Lots(tracker, a)[k].quantity > 0)
    /\ [][SoldNow =>
            LET e == events'[Len(events')]
            IN  /\ SumQuantity(ClosedOf(tracker', e.asset))
                      - SumQuantity(ClosedOf(tracker, e.asset))
                   = Smaller(e.quantity, SumQuantity(Lots(tracker, e.asset)))
                /\ SumQuantity(Lots(tracker, e.asset))
                      - SumQuantity(Lots(tracker', e.asset))
                   = Smaller(e.quantity, SumQuantity(Lots(tracker, e.asset)))]_vars
    /\ []((/\ Len(events) = 2
           /\ events[1].side = "Buy" /\ events[2].side = "Sell"
           /\ events[1].asset = events[2].asset
           /\ events[2].quantity < events[1].quantity) =>
             /\ Len(Lots(tracker, events[1].asset)) = 1
             /\ Lots(tracker, events[1].asset)[1].quantity
                   = events[1].quantity - events[2].quantity
             /\ Len(tracker.closed_trades) = 1
             /\ tracker.closed_trades[1].quantity = events[2].quantity)

\* C17 witness: a sell of two units met a single open unit and closed it,
\* after a buy of two units had been sold in part.
C17_Witness ==
    /\ Len(events) = 4
    /\ events[1].side = "Buy" /\ events[1].quantity = 2
    /\ events[2].side = "Sell" /\ events[2].quantity = 1
    /\ events[3].side = "Sell" /\ events[3].quantity = 2
    /\ events[2].asset = events[1].asset
    /\ events[3].asset = events[1].asset
    /\ Len(tracker.closed_trades) = 2
    /\ tracker.open_trades = <<>>

\* The number of executed buys.
RECURSIVE BuysIn(_)
BuysIn(fs) ==
    IF fs = <<>> THEN 0
    ELSE (IF Head(fs).order.direction = "Buy" THEN 1 ELSE 0) + BuysIn(Tail(fs))

\* The step executed an order.
ExecutedNow == Len(fills') = Len(fills) + 1

\* C18: the tracker reflects every executed order exactly once.  The number
\* of events it was handed is the number of executions, it has created one
\* lot per executed buy, and for each symbol its open-lot quantities add up
\* to the quantity of the broker's position; an executed buy adds exactly
\* one open lot, of the size, price and fee of the execution, and an
\* executed sell takes exactly its size from the open lots into closed
\* trades.
C18_TrackerMatchesBroker ==
    /\ [](/\ Len(events) = Len(fills)
          /\ Len(fills) = analytics.total_exec_orders
          /\ tracker.next_trade_id - 1 = BuysIn(fills)
          /\ \A a \in Assets :
                SumQuantity(Lots(tracker, a)) = HeldQuantity(portfolio, a))
    /\ [][ExecutedNow =>
            LET f == fills'[Len(fills')]
                a == f.order.asset
            IN  IF f.order.direction = "Buy"
                THEN /\ Len(Lots(tracker', a)) = Len(Lots(tracker, a)) + 1
                     /\ SubSeq(Lots(tracker', a), 1, Len(Lots(tracker, a)))
                           = Lots(tracker, a)
                     /\ LET lot == Lots(tracker', a)[Len(Lots(tracker', a))]
                        IN  /\ lot.quantity = f.order.size
                            /\ lot.entry_price = f.price
                            /\ lot.entry_fees = f.fees
                            /\ lot.entry_time = f.time
                     /\ tracker'.closed_trades = tracker.closed_trades
                ELSE /\ SumQuantity(Lots(tracker, a))
                           - SumQuantity(Lots(tracker', a)) = f.order.size
                     /\ SumQuantity(ClosedOf(tracker', a))
                           - SumQuantity(ClosedOf(tracker, a)) = f.order.size]_vars

\* C18 witness: a lot of two units was closed in part by an executed sell:
\* one unit is open in the tracker and held by the broker.
C18_Witness ==
    /\ Len(fills) = 2
    /\ fills[1].order.size = 2
    /\ fills[2].order.direction = "Sell"
    /\ \E a \in DOMAIN portfolio :
          /\ portfolio[a].quantity = 1
          /\ Len(Lots(tracker, a)) = 1
          /\ Len(tracker.closed_trades) = 1

\* The value of an Option that is Some.
Unwrap(opt) == CHOOSE x \in opt : TRUE

\* Sums over closed trades: the profits, the cost basis entry_price *
\* quantity, the entry and exit fees, the entry and exit slippage.
RECURSIVE SumProfit(_)
SumProfit(ts) ==
    IF ts = <<>> THEN 0
    ELSE Unwrap(Head(ts).profit_loss) + SumProfit(Tail(ts))

RECURSIVE SumBasis(_)
SumBasis(ts) ==
    IF ts = <<>> THEN 0
    ELSE Head(ts).entry_price * Head(ts).quantity + SumBasis(Tail(ts))

RECURSIVE SumFees(_)
SumFees(ts) ==
    IF ts = <<>> THEN 0
    ELSE Head(ts).entry_fees + Head(ts).exit_fees + SumFees(Tail(ts))

RECURSIVE SumSlippage(_)
SumSlippage(ts) ==
    IF ts = <<>> THEN 0
    ELSE Head(ts).entry_slippage + Head(ts).exit_slippage
         + SumSlippage(Tail(ts))

\* The cost of the lots still open: entry_price * quantity plus the entry
\* fees they still carry, over all symbols.
RECURSIVE OpenCost(_, _)
OpenCost(tr, assets) ==
    IF assets = {} THEN 0
    ELSE LET a == CHOOSE x \in assets : TRUE
         IN  SumBasis(Lots(tr, a))
             + SumFees(Lots(tr, a))
             + OpenCost(tr, assets \ {a})

\* The run has entered its loop: the tracker knows the starting capital.
Running == pc \notin {"config", "run"} /\ data_feed # <<>>

\* C19 as stated: at every point of a run the profits of the closed trades
\* add up to (cash + cost basis of the closed lots) - initial_capital - the
\* fees on the closed lots - the slippage on the closed lots.
C19_LedgerIdentityAsStated ==
    Running =>
        SumProfit(tracker.closed_trades)
        = (cash + SumBasis(tracker.closed_trades)) - tracker.initial_capital
          - SumFees(tracker.closed_trades)
          - SumSlippage(tracker.closed_trades)

\* C19, amended: at every point of a run the profits of the closed trades
\* add up to cash plus the cost of the lots still open (entry price *
\* quantity plus the entry fees they carry) minus initial_capital.
C19_LedgerIdentity ==
    Running =>
        SumProfit(tracker.closed_trades)
        = cash + OpenCost(tracker, Assets) - tracker.initial_capital

\* C19 witness: under a fee and slippage a lot of two units was closed in
\* part, at a profit or a loss, and the other unit is still open.
C19_Witness ==
    /\ Running
    /\ fee_type # NoFee
    /\ slippage_values # <<>>
    /\ Len(tracker.closed_trades) = 1
    /\ tracker.closed_trades[1].profit_loss # Some(0)
    /\ tracker.closed_trades[1].entry_fees > 0
    /\ \E a \in Assets :
          /\ Len(Lots(tracker, a)) = 1
          /\ Lots(tracker, a)[1].id = tracker.closed_trades[1].id

\* The executions are exactly a round trip: a buy of n units of a symbol and
\* then a sell of n units of it at the same execution price, under no fee
\* and no slippage.
RoundTrip ==
    /\ Running
    /\ fee_type = NoFee
    /\ slippage_values = <<>>
    /\ Len(fills) = 2
    /\ fills[1].order.direction = "Buy"
    /\ fills[2].order.direction = "Sell"
    /\ fills[2].order.asset = fills[1].order.asset
    /\ fills[2].order.size = fills[1].order.size
    /\ fills[2].price = fills[1].price

\* C20: a Buy(n) followed by a Sell(n) at the same execution price with
\* zero fees and zero slippage yields exactly one closed trade, of n units,
\* with profit_loss = 0 and return_pct = 0, returns cash to its value
\* before the buy and leaves no position and no open lot.
C20_RoundTripIsNeutral ==
    RoundTrip =>
        /\ Len(tracker.closed_trades) = 1
        /\ tracker.closed_trades[1].quantity = fills[1].order.size
        /\ tracker.closed_trades[1].asset = fills[1].order.asset
        /\ tracker.closed_trades[1].profit_loss = Some(0)
        /\ tracker.closed_trades[1].return_pct = Some(<<0, 1>>)
        /\ cash = tracker.initial_capital
        /\ fills[1].order.asset \notin DOMAIN portfolio
        /\ tracker.open_trades = <<>>
        /\ portfolio = <<>>

\* C20 witness: two units were bought at one timestamp and sold at a later
\* one at the same price.
C20_Witness ==
    /\ RoundTrip
    /\ fills[1].order.size = 2
    /\ fills[2].time > fills[1].time
    /\ Len(tracker.closed_trades) = 1

\* C30: slippage draws are consumed from the pool in round-robin order.  The
\* k-th execution, counted from 0, uses pool entry k mod N and is priced at
\* open * (1 + that entry); when no pool was configured the execution price
\* is the open and total_slippage stays 0.
C30_RoundRobinDraws ==
    /\ [](slippage_values = <<>> => analytics.total_slippage = 0)
    /\ [][ExecutedNow =>
            LET f == fills'[Len(fills')]
                k == Len(fills)
                open == CurrentPrice.open
            IN  IF slippage_values = <<>>
                THEN f.price = open
                ELSE f.price * One
                     = open * (One + slippage_values[(k % Len(slippage_values)) + 1])]_vars

\* The handler has read an input that does not parse: a text that is no
\* date, a strategy that does not decode or does not load, a tick it made
\* no duration of.
BadInput ==
    \/ \E t \in handler.start_text : ParseTime(t) = None
    \/ \E t \in handler.end_text : ParseTime(t) = None
    \/ handler.decodes = Some(FALSE)
    \/ handler.loads = Some(FALSE)
    \/ handler.tick_text # None /\ handler.duration = None

\* The statuses of the responses of the handler so far.
Statuses == [k \in 1..Len(handler.responses) |-> handler.responses[k].status]

\* C27: every input parsing error (bad start or end date, undecodable
\* base64, module that fails to load, bad tick) is answered with exactly one
\* error of status 400 before any simulation begins: no price data is
\* fetched, no broker is configured and engine.run is not called.  A failed
\* fetch and an engine error are answered with 500, a successful run with
\* 200, and no request is answered twice.
C27_ParseErrorsBeforeSimulation ==
    /\ Len(handler.responses) <= 1
    /\ BadInput <=> Statuses = <<400>>
    /\ BadInput =>
          /\ handler.fetches = None
          /\ cash = 0 /\ analytics.added_funds = 0 /\ data_feed = <<>>
          /\ pc = "config"
    /\ handler.fetches = Some(FALSE) => Statuses = <<500>> /\ pc = "config"
    /\ (pc = "done" /\ handler.step = "responded") =>
          Statuses = IF result = Some(BacktestResult) THEN <<200>> ELSE <<500>>
    /\ Statuses = <<200>> => pc = "done" /\ result = Some(BacktestResult)
    /\ Statuses = <<500>> =>
          \/ handler.fetches = Some(FALSE)
          \/ pc = "done" /\ result = Some(DataFeedEmpty)

\* C27 witness: after dates and a strategy that parse, a tick that does not
\* was answered with 400.
C27_Witness ==
    /\ handler.loads = Some(TRUE)
    /\ handler.tick_text # None
    /\ handler.duration = None
    /\ Statuses = <<400>>

\* The text is an integer followed by the unit suffix s or ns.
WellFormedTick(text) ==
    \E k \in 1..Len(text) :
       /\ \A j \in 1..k : text[j] \in Digits
       /\ SubSeq(text, k + 1, Len(text)) \in {<<"s">>, <<"n", "s">>}

\* C28: a tick text is accepted only if it is an integer followed by the
\* unit suffix s or ns; every other text is rejected with InvalidTick, a
\* response of status 400.
C28_TickFormat ==
    \A text \in handler.tick_text :
       ~WellFormedTick(text) =>
          /\ handler.duration = None
          /\ Statuses = <<400>>

\* C29: a request whose slippage bounds violate min <= max, or whose
\* Percentage fee lies outside [0, 1], is rejected at the boundary before
\* any simulation begins: no broker carries such a fee, and set_slippage is
\* only ever applied with min <= max.
C29_BoundsValidated ==
    /\ fee_type.kind = "Percentage" =>
          0 <= fee_type.value /\ fee_type.value <= One
    /\ slippage_range[1] <= slippage_range[2]
    /\ \A range \in handler.slippage : range[1] <= range[2]

\* C25: for every trade ledger and every equity curve with positive values
\* the computed metrics satisfy max_drawdown <= 0, 0 <= win_rate <= 100 and
\* winning_trades + losing_trades <= total_trades.
C25_MetricsInRange ==
    \A m \in metrics :
       (\A k \in 1..Len(tracker.equity_curve) : tracker.equity_curve[k][2] > 0)
       =>
       /\ m.max_drawdown[2] > 0 /\ m.max_drawdown[1] <= 0
       /\ m.win_rate[2] > 0
       /\ 0 <= m.win_rate[1] /\ m.win_rate[1] <= 100 * m.win_rate[2]
       /\ m.winning_trades + m.losing_trades <= m.total_trades

\* C25 witness: metrics of a ledger with a winner, a loser and a trade at
\* par, and of a curve that fell below an earlier peak and ended above it.
C25_Witness ==
    \E m \in metrics :
       /\ m.total_trades = 3
       /\ m.winning_trades = 1
       /\ m.losing_trades = 1
       /\ m.max_drawdown[1] < 0
       /\ Len(tracker.equity_curve) = 3
       /\ tracker.equity_curve[3][2] > tracker.equity_curve[1][2]

\* C26: with a feed of length 1 at most one tick is processed (pending
\* orders are handled and the strategy is called at most once, at the start
\* time), whatever the start time, the end time and the tick interval, and
\* the sharpe_ratio of the result is 0.
C26_SingleSampleSingleTick ==
    Len(data_feed) = 1 =>
       /\ pc \in {"pending", "strategy"} => current_time = time_range[1]
       /\ \A m \in metrics : m.sharpe_ratio = Zero

\* C24: the equity curve is non-decreasing in timestamp.  A point is only
\* ever appended, one at a time and with the time of the tick, on the
\* return of that tick's handle_unfulfilled_orders call and before its
\* strategy call, so at most once per tick.
C24_EquityCurveMonotone ==
    /\ [](\A j, k \in 1..Len(tracker.equity_curve) :
             j < k => tracker.equity_curve[j][1] <= tracker.equity_curve[k][1])
    /\ [][tracker'.equity_curve # tracker.equity_curve =>
             /\ tracker'.equity_curve
                   = Append(tracker.equity_curve,
                            <<current_time, cash + PortfolioValue(CurrentPrice)>>)
             /\ pc = "pending" /\ pc' = "strategy"
             /\ i >= Len(orders)]_vars

\* The last host call made.
LastCall == host_calls[Len(host_calls)]

\* A host call has just been made.
HostCalled == Len(host_calls') > Len(host_calls)

\* The guest call of a tick has just returned to the engine.
TickReturned == guest \in {"tick", "trapped"} /\ guest' = "idle"

\* C21: the broker handle of the host is empty whenever no tick call is in
\* progress (before the first tick, during init, after each return); a
\* host call placing an order made outside a tick changes no broker state;
\* and the broker the engine has after a tick returns is the one it lent,
\* with the orders of the guest appended and counted.
C21_CapabilityOnlyDuringTick ==
    /\ [](guest = "idle" => host_broker = None)
    /\ [][HostCalled /\ guest = "idle" =>
             UNCHANGED brokerVars /\ host_broker' = None]_vars
    /\ [][TickReturned =>
             \E b \in lent :
                /\ cash' = b.cash
                /\ fee_type' = b.fee_type
                /\ slippage_range' = b.slippage_range
                /\ portfolio' = b.portfolio
                /\ slippage_values' = b.slippage_values
                /\ slippage_index' = b.slippage_index
                /\ Len(orders') >= Len(b.orders)
                /\ SubSeq(orders', 1, Len(b.orders)) = b.orders
                /\ \A k \in (Len(b.orders) + 1)..Len(orders') :
                      orders'[k].id \in placed_now
                /\ analytics' =
                      [b.analytics EXCEPT !.total_placed_orders =
                                             @ + Len(orders') - Len(b.orders)]]_vars

\* A well-formed order was requested during init, another during a tick
\* that has returned; only the second is in the engine's broker.
C21_Witness ==
    /\ pc = "advance"
    /\ guest = "idle"
    /\ host_broker = None
    /\ Len(host_calls) = 2
    /\ \A k \in 1..2 :
          /\ SliceInRange(host_calls[k].asset_ptr, host_calls[k].asset_len)
          /\ host_calls[k].direction \in {0, 1}
    /\ host_calls[1].during = "init"
    /\ host_calls[2].during = "tick"
    /\ Len(orders) = 1
    /\ analytics.total_placed_orders = 1

\* C22: a host call with a direction other than 0 and 1, or with an asset
\* slice outside the memory, is dropped: no order is placed, the host does
\* not panic, and the guest call goes on.
C22_BadCallsDropped ==
    [][HostCalled /\ (\/ ~SliceInRange(LastCall'.asset_ptr, LastCall'.asset_len)
                      \/ LastCall'.direction \notin {0, 1}) =>
          /\ pc' = pc
          /\ guest' = guest
          /\ host_broker' = host_broker
          /\ UNCHANGED brokerVars]_vars

\* C23: a tick in which the guest has called abort or has trapped is a
\* no-op: the broker the engine has after it is the broker it had before,
\* and the run goes on to the advance of the time.
C23_GuestErrorIsNoOp ==
    [][TickReturned /\ (aborted \/ guest = "trapped") =>
          /\ Some(BrokerValue)' = lent
          /\ pc' = NextPhase("strategy")]_vars

\* The trades a sell has just pushed to the ledger, in ledger order.
NewTrades ==
    SubSeq(tracker'.closed_trades, Len(tracker.closed_trades) + 1,
           Len(tracker'.closed_trades))

\* Sums of the exit fees and of the entry fees of a sequence of trades.
RECURSIVE SumExitFees(_)
SumExitFees(ts) ==
    IF ts = <<>> THEN 0 ELSE Head(ts).exit_fees + SumExitFees(Tail(ts))

RECURSIVE SumEntryFees(_)
SumEntryFees(ts) ==
    IF ts = <<>> THEN 0 ELSE Head(ts).entry_fees + SumEntryFees(Tail(ts))

\* The trades and the lots cut from the lot of an id.
WithId(ts, id) == SelectSeq(ts, LAMBDA t : t.id = id)

\* The buy events so far; the k-th of them created the lot of id k.
BuyEvents == SelectSeq(events, LAMBDA e : e.side = "Buy")

\* C31: fee attribution conserves fees.  The exit fees of the trades
\* produced by a sell that the open lots match in full add up to the fee
\* of the sell; and for every lot bought, the entry fees of the closed
\* trades cut from it and of its open remainder add up to the fee of the
\* buy.
C31_FeesConserved ==
    /\ [][(SoldNow /\ events'[Len(events')].quantity
                         <= SumQuantity(Lots(tracker, events'[Len(events')].asset)))
             => SumExitFees(NewTrades) = events'[Len(events')].fees]_vars
    /\ [](\A k \in 1..Len(BuyEvents) :
             SumEntryFees(WithId(tracker.closed_trades, k))
             + SumEntryFees(WithId(Lots(tracker, BuyEvents[k].asset), k))
             = BuyEvents[k].fees)

\* C31 witness: a lot of two units was closed in part by a first sell, and
\* a second sell of two units closed its remainder and a later lot of one.
C31_Witness ==
    /\ Len(events) = 4
    /\ events[1].side = "Buy" /\ events[1].quantity = 2
    /\ events[2].side = "Buy" /\ events[2].quantity = 1
    /\ events[3].side = "Sell" /\ events[3].quantity = 1
    /\ events[4].side = "Sell" /\ events[4].quantity = 2
    /\ Len(tracker.closed_trades) = 3
    /\ tracker.open_trades = <<>>
    /\ SumExitFees(tracker.closed_trades) = events[3].fees + events[4].fees

\* The sell has just closed a part of the lot `before`, now `after`.
ClosedInPart(before, after) ==
    /\ after.id = before.id
    /\ after.quantity < before.quantity

\* C32: when a sell closes only a part m of a lot of quantity q, the entry
\* fees and the entry slippage of the closed trade are m/q of the lot's
\* values before the sell, and the open remainder carries the rest.
C32_PartialCloseProrated ==
    [][SoldNow =>
          LET e == events'[Len(events')]
          IN  \A before \in {Lots(tracker, e.asset)[k] :
                                k \in 1..Len(Lots(tracker, e.asset))} :
              \A after \in {Lots(tracker', e.asset)[k] :
                               k \in 1..Len(Lots(tracker', e.asset))} :
                 ClosedInPart(before, after) =>
                    \E t \in {NewTrades[k] : k \in 1..Len(NewTrades)} :
                       /\ t.id = before.id
                       /\ t.quantity = before.quantity - after.quantity
                       /\ t.entry_fees * before.quantity
                             = before.entry_fees * t.quantity
                       /\ t.entry_slippage * before.quantity
                             = before.entry_slippage * t.quantity
                       /\ after.entry_fees = before.entry_fees - t.entry_fees
                       /\ after.entry_slippage
                             = before.entry_slippage - t.entry_slippage]_vars

\* The step handed a buy event to the tracker.
BoughtNow ==
    /\ Len(events') = Len(events) + 1
    /\ events'[Len(events')].side = "Buy"

\* C38: lot ids are assigned in strictly increasing order, one fresh id per
\* buy event, and no two closed trades of the ledger carry the same id.
C38_LotIdsUnique ==
    /\ [][BoughtNow =>
             LET a == events'[Len(events')].asset
                 lot == Lots(tracker', a)[Len(Lots(tracker', a))]
             IN  /\ lot.id = tracker.next_trade_id
                 /\ tracker'.next_trade_id > tracker.next_trade_id
                 /\ \A b \in Assets : \A k \in 1..Len(Lots(tracker, b)) :
                       Lots(tracker, b)[k].id < lot.id
                 /\ \A k \in 1..Len(tracker.closed_trades) :
                       tracker.closed_trades[k].id < lot.id]_vars
    /\ [](\A j, k \in 1..Len(tracker.closed_trades) :
             j # k => tracker.closed_trades[j].id # tracker.closed_trades[k].id)

\* C39: closed trades are appended to the ledger in the order their lots
\* are consumed: the trades of one sell appear oldest lot first, and the
\* ledger is ordered by exit time.
C39_LedgerInClosingOrder ==
    /\ [][SoldNow =>
             /\ SubSeq(tracker'.closed_trades, 1, Len(tracker.closed_trades))
                   = tracker.closed_trades
             /\ \A j, k \in 1..Len(NewTrades) :
                   j < k => NewTrades[j].id < NewTrades[k].id]_vars
    /\ [](\A j, k \in 1..Len(tracker.closed_trades) :
             j < k => Unwrap(tracker.closed_trades[j].exit_time)
                         <= Unwrap(tracker.closed_trades[k].exit_time))

\* C40: the ledger reconciles with the cash account.  After every tick of a
\* run, cash minus the starting cash plus the cost of the lots still open
\* (entry price * quantity plus the entry fees they carry) is the sum of
\* the profits of the closed trades.
C40_LedgerMatchesCash ==
    (Running /\ pc \in {"advance", "while", "done"}) =>
        cash - analytics.added_funds + OpenCost(tracker, Assets)
        = SumProfit(tracker.closed_trades)

\* C40 witness: at the end of a tick, under a flat fee, a lot of two units
\* has been closed in part and lots of two symbols are open.
C40_Witness ==
    /\ Running
    /\ pc = "advance"
    /\ fee_type.kind = "Flat"
    /\ Len(tracker.closed_trades) = 1
    /\ tracker.closed_trades[1].exit_fees > 0
    /\ \A a \in Assets : Len(Lots(tracker, a)) = 1
    /\ cash # analytics.added_funds

\* The broker `after` is the broker `before` with orders appended and
\* counted, and nothing else changed.
OnlyAppended(before, after) ==
    /\ after.cash = before.cash
    /\ after.portfolio = before.portfolio
    /\ after.fee_type = before.fee_type
    /\ after.slippage_range = before.slippage_range
    /\ after.slippage_values = before.slippage_values
    /\ after.slippage_index = before.slippage_index
    /\ after.analytics.total_exec_orders = before.analytics.total_exec_orders
    /\ after.analytics.total_fees = before.analytics.total_fees
    /\ after.analytics.total_slippage = before.analytics.total_slippage
    /\ after.analytics.added_funds = before.analytics.added_funds
    /\ Len(after.orders) >= Len(before.orders)
    /\ SubSeq(after.orders, 1, Len(before.orders)) = before.orders
    /\ after.analytics.total_placed_orders
          = before.analytics.total_placed_orders
            + (Len(after.orders) - Len(before.orders))

\* C33: a strategy tick through the host functions can only append orders.
\* While the guest runs, the broker in the handle is the broker the engine
\* lent with orders appended; and across the tick call the engine's cash,
\* portfolio, fee schedule, slippage configuration, executed counter,
\* total_fees and total_slippage are unchanged, the orders already in the
\* book are unchanged in their order, and the placed counter has grown by
\* the number of orders appended.
C33_TickOnlyAppends ==
    /\ [](guest \in {"tick", "trapped"} =>
             \E before \in lent : \E now \in host_broker :
                OnlyAppended(before, now))
    /\ [][guest = "idle" /\ guest' = "tick" => lent' = Some(BrokerValue)]_vars
    /\ [][TickReturned =>
             \E before \in lent : OnlyAppended(before, BrokerValue')]_vars

\* C33 witness: a tick call has returned that found one order in the book
\* and appended a second order.
C33_Witness ==
    /\ pc = "advance"
    /\ guest = "idle"
    /\ Len(orders) = 2
    /\ analytics.total_placed_orders = 2
    /\ \E before \in lent :
          /\ Len(before.orders) = 1
          /\ before.orders[1] = orders[1]
          /\ before.cash = cash

\* A call on the position has just been made.
PositionCalled == Len(events') = Len(events) + 1 /\ "A" \in DOMAIN portfolio

\* C34: position arithmetic.  Position::remove reduces the quantity and
\* never changes average_price; with an amount greater than the quantity
\* held it fails and leaves quantity and average_price as they were.
\* Position::update adds to the quantity and sets average_price to
\* (avg * qty + price * dqty) / (qty + dqty).
C34_PositionArithmetic ==
    [][PositionCalled =>
          LET e == events'[Len(events')]
              before == portfolio["A"]
              after == portfolio'["A"]
          IN  /\ e.call = "remove" =>
                    /\ after.average_price = before.average_price
                    /\ e.ok = (e.quantity <= before.quantity)
                    /\ after.quantity =
                          IF e.quantity > before.quantity
                          THEN before.quantity
                          ELSE before.quantity - e.quantity
              /\ e.call = "update" =>
                    /\ after.quantity = before.quantity + e.quantity
                    /\ after.average_price[2] > 0
                    /\ after.average_price[1] * after.quantity
                          * before.average_price[2]
                       = after.average_price[2]
                          * (before.average_price[1] * before.quantity
                             + e.price * e.quantity * before.average_price[2])]_vars

\* C34 witness: a position of one unit at 100 took two units at 130 (its
\* average is 120), gave up two units at the same average and then refused
\* a removal of more than it held.
C34_Witness ==
    /\ Len(events) = 4
    /\ events[1] = PositionCall("new", 1, 100, TRUE)
    /\ events[2] = PositionCall("update", 2, 130, TRUE)
    /\ events[3] = PositionCall("remove", 2, 0, TRUE)
    /\ events[4] = PositionCall("remove", 2, 0, FALSE)
    /\ portfolio["A"] = [quantity |-> 1, average_price |-> <<120, 1>>]

\* The sample that set the running maximum of the curve at its k-th
\* sample: the first of the samples up to k with the largest value.
PeakBefore(curve, k) ==
    CHOOSE j \in 1..k :
       /\ \A n \in 1..k : curve[n][2] <= curve[j][2]
       /\ \A n \in 1..(j - 1) : curve[n][2] < curve[j][2]

\* The longest span, in days, from the peak preceding a sample to it.
LongestSpan(curve) ==
    IF curve = <<>> THEN 0
    ELSE LET spans == {curve[k][1] - curve[PeakBefore(curve, k)][1] :
                          k \in 1..Len(curve)}
         IN  CHOOSE d \in spans : \A x \in spans : x <= d

\* C35: max_drawdown_duration_days is the longest span from the latest peak
\* preceding a drawdown sample to that sample: the maximum, over the
\* samples at or below the running maximum, of the time of the sample
\* minus the time of the sample that set the running maximum.
C35_DrawdownDuration ==
    \A m \in metrics :
       m.total_trades > 0 =>
          m.max_drawdown_duration_days = LongestSpan(tracker.equity_curve)

\* The ids of a sequence of orders, of the executions, of the orders a
\* handle_unfulfilled_orders call has examined.
IdsOf(book) == {book[k].id : k \in 1..Len(book)}
FilledIds == {fills[k].order.id : k \in 1..Len(fills)}
ExaminedIds == {examined[k].order.id : k \in 1..Len(examined)}

\* The orders placed so far that are neither in the book nor executed.
DroppedIds == ((1..analytics.total_placed_orders) \ IdsOf(orders)) \ FilledIds

\* C36: an order leaves the book only by a successful fill or by expiry:
\* every order a step takes out of the book is the one the step executes,
\* or one whose valid_until lies before the current time; and in every
\* state placed = executed + dropped on expiry + still in the book, the
\* three groups being disjoint, hence executed <= placed.
C36_CountersReconcile ==
    /\ [][\A id \in IdsOf(orders) \ IdsOf(orders') :
             \/ /\ Len(fills') = Len(fills) + 1
                /\ fills'[Len(fills')].order.id = id
                /\ analytics'.total_exec_orders = analytics.total_exec_orders + 1
             \/ /\ fills' = fills
                /\ analytics'.total_exec_orders = analytics.total_exec_orders
                /\ \E k \in 1..Len(orders) :
                      /\ orders[k].id = id
                      /\ \E valid_until \in orders[k].valid_until :
                            valid_until < current_time]_vars
    /\ [](/\ Cardinality(IdsOf(orders)) = Len(orders)
          /\ Cardinality(FilledIds) = analytics.total_exec_orders
          /\ IdsOf(orders) \cap FilledIds = {}
          /\ IdsOf(orders) \cup FilledIds \subseteq 1..analytics.total_placed_orders
          /\ analytics.total_placed_orders
                = analytics.total_exec_orders + Cardinality(DroppedIds)
                  + Len(orders)
          /\ analytics.total_exec_orders <= analytics.total_placed_orders)

\* C36 witness: of three orders placed one was executed, one was dropped
\* on expiry and one is still in the book.
C36_Witness ==
    /\ analytics.total_placed_orders = 3
    /\ analytics.total_exec_orders = 1
    /\ Len(orders) = 1
    /\ Cardinality(DroppedIds) = 1
    /\ \E k \in 1..Len(examined) : examined[k].outcome = "expired"

\* The orders of the book the current handle_unfulfilled_orders call has
\* still to evaluate.
Unexamined == SubSeq(orders, i + 1, Len(orders))

\* C37: each order in the book when handle_unfulfilled_orders starts is
\* evaluated exactly once during the call.  The call starts with the whole
\* book to evaluate; every iteration evaluates one order that was not
\* evaluated before and leaves the others to evaluate, whatever swap_remove
\* moves; the call returns when none is left; and no order is executed
\* twice.
C37_EvaluatedOnce ==
    /\ [][pc # "pending" /\ pc' = "pending" =>
             i' = 0 /\ examined' = <<>>]_vars
    /\ [][Examining /\ pc' = "pending" =>
             /\ Len(examined') = Len(examined) + 1
             /\ examined'[Len(examined')].order = orders[i + 1]
             /\ SubSeq(examined', 1, Len(examined)) = examined
             /\ IdsOf(Unexamined') = IdsOf(Unexamined) \ {orders[i + 1].id}
             /\ Len(Unexamined') = Len(Unexamined) - 1]_vars
    /\ [](pc = "pending" =>
             /\ i <= Len(orders)
             /\ Cardinality(ExaminedIds) = Len(examined)
             /\ ExaminedIds \cap IdsOf(Unexamined) = {}
             /\ IdsOf(SubSeq(orders, 1, i)) \subseteq ExaminedIds)
    /\ [][pc = "pending" /\ pc' # "pending" => Unexamined = <<>>]_vars
    /\ [](Cardinality(FilledIds) = Len(fills))

\* C37 witness: a call has evaluated three orders, the first of which it
\* executed and removed, so that the last order of the book took its place
\* and was evaluated next.
C37_Witness ==
    /\ pc = "strategy"
    /\ Len(examined) = 3
    /\ examined[1].outcome = "filled"
    /\ examined[2].order.id > examined[3].order.id
    /\ Cardinality(ExaminedIds) = 3

====
